---- MODULE Spec2Model ----
(***************************************************************************)
(* A model of bao: the tree hash of src/src/hash.rs (BLAKE2b, Root/NotRoot *)
(* finalization, State and Writer) and the simple codec of src/src/lib.rs  *)
(* (SHA-512 prefix, encode / decode / decode_chunk / RahReader).           *)
(*                                                                         *)
(* Representation of data.  A stream is a sequence of symbols.  A plain    *)
(* byte b is the symbol <<b>>.  A digest is one symbol <<input, flag>>:    *)
(* the sequence of symbols the primitive was fed and its last-node flag.   *)
(* Two digests are equal exactly when the primitive was fed the same       *)
(* symbols with the same flag, so the primitive is collision-free and      *)
(* nothing else.  Sizes are scaled: a digest occupies one symbol where the *)
(* code has 32 bytes, and a chunk holds CHUNK_SIZE = 2 symbols where the   *)
(* code has 4096 bytes; a parent node (two digests) still fits in a chunk, *)
(* as in the code.                                                         *)
(***************************************************************************)
EXTENDS Integers, Sequences, FiniteSets, TLC

\* ---------------------------------------------------------------- bounds
\* The longest input, in symbols (5 chunks: more than MAX_SINGLE_THREADED).
MaxLen == 9
\* The longest slice one Writer::update call is given.
MaxSlice == 3
\* The longest input of the codec runs (5 chunks).
MaxCodecLen == 9
\* Reader runs: the longest input (3 chunks), the largest caller buffer.
MaxReadLen == 5
MaxBuf == 3
\* Reader runs: the largest position a seek is given.
MaxSeek == 1
\* Reader runs: the read calls counted after a hash mismatch was returned.
MaxLater == 1
\* Encoder runs: the width in bits of the lengths of the inputs fed without
\* regard to their content (the code's lengths are 64 bits wide).
LenBits == 4
\* Geometry runs: the width in bits of a content length (64 in the code).
GeomBits == 7
\* Finalization runs: the longest plain node body, the largest root length.
MaxBody == 1
MaxRootLen == 2

\* ------------------------------------------------------------- constants
\* hash.rs:12, scaled: a digest is one symbol.
HASH_SIZE == 1
\* hash.rs:13
PARENT_SIZE == 2 * HASH_SIZE
\* hash.rs:14: the length suffix keeps its 8 little-endian bytes.
HEADER_SIZE == 8
\* hash.rs:15 and lib.rs:11, scaled from 4096.
CHUNK_SIZE == 2
\* hash.rs:19
MAX_DEPTH == 64
\* hash.rs:20
MAX_SINGLE_THREADED == 4 * CHUNK_SIZE
\* lib.rs:12, scaled: a digest is one symbol.
DIGEST_SIZE == 1

\* ------------------------------------------------------------ data model
None == <<>>
\* What a call that panicked (unwrap of None, index out of range) leaves.
Panic == <<"panic">>
ByteVals == {0, 1}
ByteSym(b) == <<b>>
ByteSyms == {ByteSym(b) : b \in ByteVals}
IsDigest(sym) == Len(sym) = 2
Strings(n) == UNION {[1..k -> ByteSyms] : k \in 0..n}
Min(a, b) == IF a <= b THEN a ELSE b
Take(s, n) == SubSeq(s, 1, Min(n, Len(s)))
Drop(s, n) == SubSeq(s, n + 1, Len(s))

VARIABLES
    \* Which entry point this behaviour exercises.
    run,
    \* The caller's input B, for the entry points that take it whole.
    input,
    \* Writer run: the bytes fed so far, the Writer, the hash finish returned,
    \* whether an update was given an empty slice, and whether one was given a
    \* slice that starts on a chunk boundary after earlier bytes.
    fed, writer, wroot, wempty, wboundary,
    \* drive_state run: the input not yet pushed, the State, the hash returned.
    rest, state, sroot,
    \* hash() run: the hash returned.
    hroot,
    \* hash_recurse_rayon run: the calls in flight, the hash returned.
    tasks, rroot,
    \* Codec run (lib.rs): how far the run is, the encoding held by the storage
    \* layer, the digest encode returned, the position of the changed byte
    \* (0: none), the one decoder call made and what it returned.
    cphase, encoding, rootDigest, pos, call, cres,
    \* Finalization run: the finalize_hash calls made so far.
    fcalls,
    \* RahReader run: the bytes the inner reader serves and how many it has
    \* served, the RahReader, every byte copied into the caller's buffers so
    \* far, what the last read call returned, the length of the buffer it was
    \* given, and the digest RahReader::new was given; and, once a read has
    \* returned a hash mismatch, the traversal stack and the bytes emitted at
    \* that moment and the number of read calls made since.
    stream, ipos, reader, emitted, rres, rbuf, rdigest, rmismatch,
    \* Encoder run (a caller of State that wants the parent nodes): how far the
    \* caller is, its State, the input not yet pushed, the parent nodes it was
    \* returned, the root it was returned, its last call and what came back,
    \* the merges push_subtree performed itself (their parent nodes are
    \* dropped), the parents merge_parent returned after the final push, and
    \* whether merge_parent had none left to return when merge_finish was first
    \* called.
    ephase, estate, erest, eparents, eroot, ecall, elost, elate, edrained,
    \* Geometry run: a content length, whether left_len was called on it, what
    \* it returned and the largest value the computation held on the way; how
    \* left_plaintext_len(gn) ended (0: not called), and what
    \* left_subtree_len_and_chunk_count returned for the length of the encoding
    \* of gn bytes (<<0, 0>>: not called), and what
    \* largest_power_of_two_leq(gn) returned (0: not called).
    gn, gcalled, gleft, gwide, gplain, gsub, gpow,
    \* Command-line run (bao_bin): the parsed arguments, what the paths name,
    \* the line the command has reached, the calls it has made on its streams
    \* and how the process ended.
    cliArgs, cliFiles, cliPc, cliOps, cliExit

writerVars == <<fed, writer, wroot, wempty, wboundary>>
driveVars == <<rest, state, sroot>>
hashVars == <<hroot>>
rayonVars == <<tasks, rroot>>
codecVars == <<cphase, encoding, rootDigest, pos, call, cres>>
finVars == <<fcalls>>
readerVars == <<stream, ipos, reader, emitted, rres, rbuf, rdigest, rmismatch>>
encVars == <<ephase, estate, erest, eparents, eroot, ecall, elost, elate, edrained>>
geomVars == <<gn, gcalled, gleft, gwide, gplain, gsub, gpow>>
cliVars == <<cliArgs, cliFiles, cliPc, cliOps, cliExit>>
vars == <<run, input, writerVars, driveVars, hashVars, rayonVars, codecVars, finVars,
          readerVars, encVars, geomVars, cliVars>>
\* What the actions of one run leave alone: the variables of the other runs.
notWriter == <<run, input, driveVars, hashVars, rayonVars, codecVars, finVars, readerVars,
              encVars, geomVars, cliVars>>
notDrive == <<run, input, writerVars, hashVars, rayonVars, codecVars, finVars, readerVars,
              encVars, geomVars, cliVars>>
notHash == <<run, input, writerVars, driveVars, rayonVars, codecVars, finVars, readerVars,
              encVars, geomVars, cliVars>>
notRayon == <<run, input, writerVars, driveVars, hashVars, codecVars, finVars, readerVars,
              encVars, geomVars, cliVars>>
notCodec == <<run, input, writerVars, driveVars, hashVars, rayonVars, finVars, readerVars,
              encVars, geomVars, cliVars>>
notFin == <<run, input, writerVars, driveVars, hashVars, rayonVars, codecVars, readerVars,
              encVars, geomVars, cliVars>>
notReader == <<run, input, writerVars, driveVars, hashVars, rayonVars, codecVars, finVars,
              encVars, geomVars, cliVars>>
notEnc == <<run, input, writerVars, driveVars, hashVars, rayonVars, codecVars, finVars,
           readerVars, geomVars, cliVars>>
notGeom == <<run, input, writerVars, driveVars, hashVars, rayonVars, codecVars, finVars,
            readerVars, encVars, cliVars>>
notCli == <<run, input, writerVars, driveVars, hashVars, rayonVars, codecVars, finVars,
           readerVars, encVars, geomVars>>

\* ------------------------------------------------- hash.rs: the primitive
\* blake2b_simd::State: the bytes fed so far and the last-node flag.
new_blake2b_state == [buf |-> <<>>, last_node |-> FALSE]
blake_update(st, bytes) == [st EXCEPT !.buf = @ \o bytes]
blake_set_last_node(st, b) == [st EXCEPT !.last_node = b]
blake_count(st) == Len(st.buf)
blake_finalize(st) == <<st.buf, st.last_node>>

\* encode_len: the 8 little-endian bytes of a u64.
RECURSIVE write_u64(_, _)
write_u64(len, k) ==
    IF k = 0 THEN <<>> ELSE <<ByteSym(len % 256)>> \o write_u64(len \div 256, k - 1)
encode_len(len) == write_u64(len, HEADER_SIZE)

\* enum Finalization
NotRoot == [root |-> FALSE, len |-> 0]
Root(n) == [root |-> TRUE, len |-> n]

\* A finalize_hash that feeds the length suffix and leaves the flag alone.
finalize_hash_noflag(st, fin) ==
    LET s1 == IF fin.root THEN blake_update(st, encode_len(fin.len)) ELSE st
    IN  [hash |-> blake_finalize(s1), state |-> s1]
\* finalize_hash takes the state by &mut: it returns the digest and leaves
\* the state with the suffix fed and the flag set.
finalize_hash(st, fin) ==
    LET s1 == IF fin.root
              THEN blake_set_last_node(blake_update(st, encode_len(fin.len)), TRUE)
              ELSE st
    IN  [hash |-> blake_finalize(s1), state |-> s1]

hash_node(chunk, fin) ==
    finalize_hash(blake_update(new_blake2b_state, chunk), fin).hash

parent_hash(left_hash, right_hash, fin) ==
    finalize_hash(
        blake_update(blake_update(new_blake2b_state, <<left_hash>>), <<right_hash>>),
        fin).hash

\* ------------------------------------------------- hash.rs: tree geometry
RECURSIVE NextPow2From(_, _)
NextPow2From(p, x) == IF p >= x THEN p ELSE NextPow2From(2 * p, x)
next_power_of_two(x) == NextPow2From(1, x)

\* A largest_power_of_two_leq without the halving: the power of two above n.
largest_power_of_two_geq(n) == next_power_of_two(n)

largest_power_of_two_leq(n) == next_power_of_two((n \div 2) + 1)

\* The largest value largest_power_of_two_leq holds: its argument, the
\* argument of next_power_of_two or the power of two it returns.
largest_power_of_two_leq_widest(n) ==
    LET held == {n, (n \div 2) + 1, next_power_of_two((n \div 2) + 1)}
    IN  CHOOSE x \in held : \A y \in held : y <= x

\* A left_len that reserves no byte for the right side.
left_len_no_reserve(content_len) ==
    LET full_chunks == content_len \div CHUNK_SIZE
    IN  largest_power_of_two_leq(full_chunks) * CHUNK_SIZE

left_len(content_len) ==
    LET full_chunks == (content_len - 1) \div CHUNK_SIZE
    IN  largest_power_of_two_leq(full_chunks) * CHUNK_SIZE

\* The largest value left_len holds while it computes: its argument, the
\* argument of next_power_of_two, the power of two and the product. No
\* operation of it can wrap when this fits the width of a length.
left_len_widest(content_len) ==
    LET full_chunks == (content_len - 1) \div CHUNK_SIZE
        held == {content_len, content_len - 1, full_chunks, (full_chunks \div 2) + 1,
                 largest_power_of_two_leq(full_chunks),
                 largest_power_of_two_leq(full_chunks) * CHUNK_SIZE}
    IN  CHOOSE x \in held : \A y \in held : y <= x

RECURSIVE count_ones(_)
count_ones(n) == IF n = 0 THEN 0 ELSE (n % 2) + count_ones(n \div 2)

\* ------------------------------------------- hash.rs: whole-buffer hashing
RECURSIVE hash_recurse(_, _)
hash_recurse(inp, fin) ==
    IF Len(inp) <= CHUNK_SIZE
    THEN hash_node(inp, fin)
    ELSE LET l == left_len(Len(inp))
         IN  parent_hash(hash_recurse(Take(inp, l), NotRoot),
                         hash_recurse(Drop(inp, l), NotRoot),
                         fin)

\* rayon::join(a, b) returns (a(), b()): as a function of its inp.
RECURSIVE hash_recurse_rayon(_, _)
hash_recurse_rayon(inp, fin) ==
    IF Len(inp) <= CHUNK_SIZE
    THEN hash_node(inp, fin)
    ELSE LET l == left_len(Len(inp))
             joined == <<hash_recurse_rayon(Take(inp, l), NotRoot),
                         hash_recurse_rayon(Drop(inp, l), NotRoot)>>
         IN  parent_hash(joined[1], joined[2], fin)

\* pub fn hash, with feature "std".
hash(inp) ==
    IF Len(inp) <= MAX_SINGLE_THREADED
    THEN hash_recurse(inp, Root(Len(inp)))
    ELSE hash_recurse_rayon(inp, Root(Len(inp)))

\* ------------------------------------------------------- hash.rs: State
\* subtrees, total_len; panicked records an unwrap() of an empty pop.
State_new == [subtrees |-> <<>>, total_len |-> 0, panicked |-> FALSE]

State_count(s) == s.total_len

\* A merge_inner that writes the right child first into the parent node.
merge_inner_swapped(s, fin) ==
    LET n == Len(s.subtrees) IN
    IF n < 2
    THEN [state |-> [s EXCEPT !.panicked = TRUE], parent |-> None]
    ELSE LET right_child == s.subtrees[n]
             left_child == s.subtrees[n - 1]
         IN  [state |-> [s EXCEPT !.subtrees =
                            Append(SubSeq(s.subtrees, 1, n - 2),
                                   parent_hash(left_child, right_child, fin))],
              parent |-> <<right_child, left_child>>]

\* merge_inner: the state after it and the parent node it returns.
merge_inner(s, fin) ==
    LET n == Len(s.subtrees) IN
    IF n < 2
    THEN [state |-> [s EXCEPT !.panicked = TRUE], parent |-> None]
    ELSE LET right_child == s.subtrees[n]
             left_child == s.subtrees[n - 1]
         IN  [state |-> [s EXCEPT !.subtrees =
                            Append(SubSeq(s.subtrees, 1, n - 2),
                                   parent_hash(left_child, right_child, fin))],
              parent |-> <<left_child, right_child>>]

\* A needs_merge whose comparison is `>=`.
needs_merge_geq(s) ==
    LET chunks == s.total_len \div CHUNK_SIZE
    IN  Len(s.subtrees) >= count_ones(chunks)

\* A needs_merge that asks for a merge whenever two subtrees are there.
needs_merge_any_two(s) == Len(s.subtrees) >= 2

needs_merge(s) ==
    LET chunks == s.total_len \div CHUNK_SIZE
    IN  Len(s.subtrees) > count_ones(chunks)

\* A push_subtree that leaves all merging to finish.
push_subtree_no_merge(s, h, len) ==
    [s EXCEPT !.subtrees = Append(@, h), !.total_len = @ + len]

RECURSIVE MergeWhileNeeded(_)
MergeWhileNeeded(s) ==
    IF s.panicked \/ ~needs_merge(s)
    THEN s
    ELSE MergeWhileNeeded(merge_inner(s, NotRoot).state)

\* A push_subtree whose `while` is an `if`: it merges once at most.
push_subtree_merge_once(s, h, len) ==
    LET m == IF needs_merge(s) THEN merge_inner(s, NotRoot).state ELSE s IN
    IF m.panicked
    THEN m
    ELSE [m EXCEPT !.subtrees = Append(@, h), !.total_len = @ + len]

push_subtree(s, h, len) ==
    LET m == MergeWhileNeeded(s) IN
    IF m.panicked
    THEN m
    ELSE [m EXCEPT !.subtrees = Append(@, h), !.total_len = @ + len]

\* A merge_parent that finalizes the parent it merges as the root.
merge_parent_as_root(s) ==
    IF ~needs_merge(s)
    THEN [state |-> s, parent |-> None]
    ELSE merge_inner(s, Root(s.total_len))

\* merge_parent: Option<ParentNode> and the state after the call.
merge_parent(s) ==
    IF ~needs_merge(s)
    THEN [state |-> s, parent |-> None]
    ELSE merge_inner(s, NotRoot)

\* A merge_finish that finalizes every merge it performs as the root.
merge_finish_always_root(s) ==
    IF Len(s.subtrees) >= 2
    THEN [kind |-> "Parent", state |-> merge_inner(s, Root(s.total_len)).state,
          value |-> merge_inner(s, Root(s.total_len)).parent]
    ELSE IF Len(s.subtrees) = 1
    THEN [kind |-> "Root", state |-> s, value |-> s.subtrees[1]]
    ELSE [kind |-> "Panic", state |-> [s EXCEPT !.panicked = TRUE], value |-> Panic]

\* A merge_finish that returns the top of a stack of two as the root.
merge_finish_skips_last(s) ==
    IF Len(s.subtrees) > 2
    THEN [kind |-> "Parent", state |-> merge_inner(s, NotRoot).state,
          value |-> merge_inner(s, NotRoot).parent]
    ELSE IF Len(s.subtrees) >= 1
    THEN [kind |-> "Root", state |-> s, value |-> s.subtrees[1]]
    ELSE [kind |-> "Panic", state |-> [s EXCEPT !.panicked = TRUE], value |-> Panic]

\* merge_finish: StateFinish::Parent(node) or StateFinish::Root(hash);
\* self.subtrees[0] of an empty stack panics.
merge_finish(s) ==
    IF Len(s.subtrees) > 2
    THEN [kind |-> "Parent", state |-> merge_inner(s, NotRoot).state,
          value |-> merge_inner(s, NotRoot).parent]
    ELSE IF Len(s.subtrees) = 2
    THEN [kind |-> "Parent", state |-> merge_inner(s, Root(s.total_len)).state,
          value |-> merge_inner(s, Root(s.total_len)).parent]
    ELSE IF Len(s.subtrees) = 1
    THEN [kind |-> "Root", state |-> s, value |-> s.subtrees[1]]
    ELSE [kind |-> "Panic", state |-> [s EXCEPT !.panicked = TRUE], value |-> Panic]

\* finish: loop on merge_finish until it returns Root.
RECURSIVE State_finish(_)
State_finish(s) ==
    IF s.panicked
    THEN [kind |-> "Panic", state |-> s, value |-> Panic]
    ELSE LET r == merge_finish(s) IN
         IF r.kind = "Parent" THEN State_finish(r.state) ELSE r

\* ------------------------------------------------------ hash.rs: Writer
Writer_new == [chunk |-> new_blake2b_state, state |-> State_new]

\* An update whose `while` is an `if`: it takes what fits the staging buffer
\* and drops the rest of its input.
Writer_update_one_turn(w, inp) ==
    IF inp = <<>>
    THEN w
    ELSE LET w1 == IF blake_count(w.chunk) = CHUNK_SIZE
                   THEN [chunk |-> new_blake2b_state,
                         state |-> push_subtree(w.state,
                                       finalize_hash(w.chunk, NotRoot).hash,
                                       CHUNK_SIZE)]
                   ELSE w
             want == CHUNK_SIZE - blake_count(w1.chunk)
             take == Min(want, Len(inp))
         IN  [w1 EXCEPT !.chunk = blake_update(@, Take(inp, take))]

\* An update that flushes the staging buffer as soon as it is full.
RECURSIVE Writer_update_eager(_, _)
Writer_update_eager(w, inp) ==
    IF inp = <<>>
    THEN w
    ELSE LET want == CHUNK_SIZE - blake_count(w.chunk)
             take == Min(want, Len(inp))
             w1 == [w EXCEPT !.chunk = blake_update(@, Take(inp, take))]
             w2 == IF blake_count(w1.chunk) = CHUNK_SIZE
                   THEN [chunk |-> new_blake2b_state,
                         state |-> push_subtree(w1.state,
                                       finalize_hash(w1.chunk, NotRoot).hash,
                                       CHUNK_SIZE)]
                   ELSE w1
         IN  Writer_update_eager(w2, Drop(inp, take))

RECURSIVE Writer_update(_, _)
Writer_update(w, inp) ==
    IF inp = <<>>
    THEN w
    ELSE LET w1 == IF blake_count(w.chunk) = CHUNK_SIZE
                   THEN [chunk |-> new_blake2b_state,
                         state |-> push_subtree(w.state,
                                       finalize_hash(w.chunk, NotRoot).hash,
                                       CHUNK_SIZE)]
                   ELSE w
             want == CHUNK_SIZE - blake_count(w1.chunk)
             take == Min(want, Len(inp))
         IN  Writer_update([w1 EXCEPT !.chunk = blake_update(@, Take(inp, take))],
                           Drop(inp, take))

\* A finish that treats its last chunk as an interior node in every case.
Writer_finalization_never_root(w) == NotRoot
\* Writer::finish: the finalization of the staged chunk.
Writer_finalization(w) ==
    IF State_count(w.state) = 0 THEN Root(blake_count(w.chunk)) ELSE NotRoot

\* Writer::finish: the Writer after the call and the hash it returns.
Writer_finish(w) ==
    LET f == finalize_hash(w.chunk, Writer_finalization(w))
        pushed == push_subtree(w.state, f.hash, blake_count(f.state))
        fin == State_finish(pushed)
    IN  [writer |-> [chunk |-> f.state, state |-> fin.state], hash |-> fin.value]

\* ------------------------------------------------- lib.rs: the simple codec
\* hash: the first 32 bytes of SHA-512 of the input, one digest symbol.
lib_hash(inp) == <<"sha512", inp>>

\* Result<T, Unspecified>, and a panic of the call.
Ok(v) == [st |-> "ok", val |-> v]
Err == [st |-> "err", val |-> None]
Panicked == [st |-> "panic", val |-> None]

\* verify: hash the input and compare it with the expected digest.
lib_verify(inp, digest) == IF lib_hash(inp) = digest THEN Ok(None) ELSE Err

\* left_plaintext_len: `while (size * 2) < input_len { size *= 2 }`.
RECURSIVE lpl_loop(_, _)
lpl_loop(size, input_len) ==
    IF size * 2 < input_len THEN lpl_loop(size * 2, input_len) ELSE size
left_plaintext_len(input_len) == lpl_loop(CHUNK_SIZE, input_len)

\* The largest value left_plaintext_len computes: the last `size * 2`.
RECURSIVE lpl_widest(_, _)
lpl_widest(size, input_len) ==
    IF size * 2 < input_len THEN lpl_widest(size * 2, input_len) ELSE size * 2
left_plaintext_len_widest(input_len) == lpl_widest(CHUNK_SIZE, input_len)

\* encode: (encoded, digest).
RECURSIVE encode(_)
encode(inp) ==
    IF Len(inp) <= CHUNK_SIZE
    THEN [encoded |-> inp, digest |-> lib_hash(inp)]
    ELSE LET l == left_plaintext_len(Len(inp))
             left == encode(Take(inp, l))
             right == encode(Drop(inp, l))
             node == <<left.digest, right.digest>>
         IN  [encoded |-> node \o left.encoded \o right.encoded,
              digest |-> lib_hash(node)]

\* A left_subtree_len_and_chunk_count whose loop ends on `>` instead of `>=`.
RECURSIVE lsl_loop_strict(_, _, _)
lsl_loop_strict(encoded_size, chunk_count, encoded_len) ==
    LET next_size == 2 * encoded_size + 2 * DIGEST_SIZE IN
    IF next_size > encoded_len
    THEN <<encoded_size, chunk_count>>
    ELSE lsl_loop_strict(next_size, chunk_count * 2, encoded_len)
left_subtree_strict(encoded_len) == lsl_loop_strict(CHUNK_SIZE, 1, encoded_len)

\* left_subtree_len_and_chunk_count: (encoded_size, chunk_count).
RECURSIVE lsl_loop(_, _, _)
lsl_loop(encoded_size, chunk_count, encoded_len) ==
    LET next_size == 2 * encoded_size + 2 * DIGEST_SIZE IN
    IF next_size >= encoded_len
    THEN <<encoded_size, chunk_count>>
    ELSE lsl_loop(next_size, chunk_count * 2, encoded_len)
left_subtree_len_and_chunk_count(encoded_len) == lsl_loop(CHUNK_SIZE, 1, encoded_len)

\* The largest value left_subtree_len_and_chunk_count computes: the last
\* next_size.
RECURSIVE lsl_widest(_, _)
lsl_widest(encoded_size, encoded_len) ==
    LET next_size == 2 * encoded_size + 2 * DIGEST_SIZE IN
    IF next_size >= encoded_len THEN next_size ELSE lsl_widest(next_size, encoded_len)
left_subtree_widest(encoded_len) == lsl_widest(CHUNK_SIZE, encoded_len)

\* decode: Ok(plaintext), Err, or a panic where a slice index is out of range.
RECURSIVE decode(_, _)
decode(encoded, digest) ==
    IF Len(encoded) <= CHUNK_SIZE
    THEN (IF lib_verify(encoded, digest).st = "ok" THEN Ok(encoded) ELSE Err)
    ELSE IF lib_verify(Take(encoded, 2 * DIGEST_SIZE), digest).st # "ok"
    THEN Err
    ELSE LET left_len_ == left_subtree_len_and_chunk_count(Len(encoded))[1]
             left_digest == encoded[1]
             right_digest == encoded[DIGEST_SIZE + 1]
             left_start == 2 * DIGEST_SIZE
             left_end == left_start + left_len_
         IN  IF left_end > Len(encoded)
             THEN Panicked
             ELSE LET left_plaintext ==
                          decode(SubSeq(encoded, left_start + 1, left_end), left_digest)
                  IN  IF left_plaintext.st # "ok"
                      THEN left_plaintext
                      ELSE LET right_plaintext ==
                                   decode(Drop(encoded, left_end), right_digest)
                           IN  IF right_plaintext.st # "ok"
                               THEN right_plaintext
                               ELSE Ok(left_plaintext.val \o right_plaintext.val)

\* A decode_chunk that trusts the parent nodes it walks through.
RECURSIVE decode_chunk_unverified_parents(_, _, _)
decode_chunk_unverified_parents(encoded, digest, chunk_num) ==
    IF Len(encoded) <= CHUNK_SIZE
    THEN (IF chunk_num = 0
          THEN (IF lib_verify(encoded, digest).st = "ok" THEN Ok(encoded) ELSE Err)
          ELSE Err)
    ELSE LET lc == left_subtree_len_and_chunk_count(Len(encoded))
             left_end == 2 * DIGEST_SIZE + lc[1]
         IN  IF left_end > Len(encoded)
             THEN Panicked
             ELSE IF chunk_num < lc[2]
             THEN decode_chunk_unverified_parents(
                      SubSeq(encoded, 2 * DIGEST_SIZE + 1, left_end), encoded[1], chunk_num)
             ELSE decode_chunk_unverified_parents(
                      Drop(encoded, left_end), encoded[DIGEST_SIZE + 1], chunk_num - lc[2])

\* A decode_chunk that checks the other child of each parent as well.
RECURSIVE decode_chunk_whole(_, _, _)
decode_chunk_whole(encoded, digest, chunk_num) ==
    IF Len(encoded) <= CHUNK_SIZE
    THEN (IF chunk_num = 0
          THEN (IF lib_verify(encoded, digest).st = "ok" THEN Ok(encoded) ELSE Err)
          ELSE Err)
    ELSE IF decode(encoded, digest).st # "ok"
    THEN decode(encoded, digest)
    ELSE LET lc == left_subtree_len_and_chunk_count(Len(encoded))
             left_end == 2 * DIGEST_SIZE + lc[1]
         IN  IF chunk_num < lc[2]
             THEN decode_chunk_whole(
                      SubSeq(encoded, 2 * DIGEST_SIZE + 1, left_end), encoded[1], chunk_num)
             ELSE decode_chunk_whole(
                      Drop(encoded, left_end), encoded[DIGEST_SIZE + 1], chunk_num - lc[2])

\* decode_chunk: Ok(the chunk), Err, or a panic of a slice index.
RECURSIVE decode_chunk(_, _, _)
decode_chunk(encoded, digest, chunk_num) ==
    IF Len(encoded) <= CHUNK_SIZE
    THEN (IF chunk_num = 0
          THEN (IF lib_verify(encoded, digest).st = "ok" THEN Ok(encoded) ELSE Err)
          ELSE Err)
    ELSE IF lib_verify(Take(encoded, 2 * DIGEST_SIZE), digest).st # "ok"
    THEN Err
    ELSE LET lc == left_subtree_len_and_chunk_count(Len(encoded))
             left_len_ == lc[1]
             left_chunk_count == lc[2]
             left_digest == encoded[1]
             right_digest == encoded[DIGEST_SIZE + 1]
             left_start == 2 * DIGEST_SIZE
             left_end == left_start + left_len_
         IN  IF left_end > Len(encoded)
             THEN Panicked
             ELSE IF chunk_num < left_chunk_count
             THEN decode_chunk(SubSeq(encoded, left_start + 1, left_end),
                               left_digest, chunk_num)
             ELSE decode_chunk(Drop(encoded, left_end),
                               right_digest, chunk_num - left_chunk_count)

\* ---------------------------------------------------- lib.rs: RahReader
\* RahReader::new. The top of traversal_stack is its last element.
RahReader_new(digest, plaintext_len) ==
    [traversal_stack |-> <<(<<digest, plaintext_len>>)>>,
     read_buffer |-> <<>>,
     output_buffer |-> <<>>]

\* lib.rs:186, scaled from 4096: the length of fill_vec's own read buffer.
read_buf_len == CHUNK_SIZE

\* A fill_vec that asks the inner reader once and takes what it gets.
fill_vec_one_read(strm, at, vec, target_len, faulty, k, short) ==
    LET need == IF Len(vec) < target_len THEN target_len - Len(vec) ELSE 0
        avail == Len(strm) - at
        got == Min(Min(need, read_buf_len), Min(avail, short))
    IN  [vec |-> vec \o SubSeq(strm, at + 1, at + got),
         ipos |-> at + got,
         res |-> IF need = 0 THEN "ok"
                 ELSE IF avail = 0 THEN "UnexpectedEof"
                 ELSE IF faulty /\ k = 0 THEN "Io" ELSE "ok"]

\* A fill_vec that takes a read of 0 bytes as the end of its work and returns
\* Ok with what it has.
RECURSIVE fill_vec_eof_ok(_, _, _, _, _, _, _)
fill_vec_eof_ok(strm, at, vec, target_len, faulty, k, short) ==
    IF ~(Len(vec) < target_len)
    THEN [vec |-> vec, ipos |-> at, res |-> "ok"]
    ELSE LET bytes_wanted == Min(target_len - Len(vec), read_buf_len)
             avail == Len(strm) - at
             served == Min(Min(bytes_wanted, avail), short)
             bytes_got == IF faulty THEN Min(served, k) ELSE served
         IN  IF avail = 0
             THEN [vec |-> vec, ipos |-> at, res |-> "ok"]
             ELSE IF faulty /\ k = 0
             THEN [vec |-> vec, ipos |-> at, res |-> "Io"]
             ELSE fill_vec_eof_ok(strm, at + bytes_got,
                                  vec \o SubSeq(strm, at + 1, at + bytes_got),
                                  target_len, faulty, k - bytes_got, short)

\* fill_vec over an inner reader that has served `at` bytes of strm. Each
\* inner read delivers at most `short` bytes (a short read when that is less
\* than was asked for); when `faulty`, the inner reader returns Err once it
\* has delivered k more bytes. The outcome is the vector, the new position
\* and "ok", "UnexpectedEof" (a read returned 0) or "Io" (a read returned Err).
RECURSIVE fill_vec(_, _, _, _, _, _, _)
fill_vec(strm, at, vec, target_len, faulty, k, short) ==
    IF ~(Len(vec) < target_len)
    THEN [vec |-> vec, ipos |-> at, res |-> "ok"]
    ELSE LET bytes_wanted == Min(target_len - Len(vec), read_buf_len)
             avail == Len(strm) - at
             served == Min(Min(bytes_wanted, avail), short)
             bytes_got == IF faulty THEN Min(served, k) ELSE served
         IN  IF avail = 0
             THEN [vec |-> vec, ipos |-> at, res |-> "UnexpectedEof"]
             ELSE IF faulty /\ k = 0
             THEN [vec |-> vec, ipos |-> at, res |-> "Io"]
             ELSE fill_vec(strm, at + bytes_got,
                           vec \o SubSeq(strm, at + 1, at + bytes_got),
                           target_len, faulty, k - bytes_got, short)

\* A chunk step that hands the buffer over before it checks it.
take_chunk_swap_first(r, digest) ==
    IF lib_verify(r.read_buffer, digest).st # "ok"
    THEN [r |-> [r EXCEPT !.read_buffer = r.output_buffer,
                          !.output_buffer = r.read_buffer],
          res |-> "InvalidData"]
    ELSE [r |-> [traversal_stack |->
                     SubSeq(r.traversal_stack, 1, Len(r.traversal_stack) - 1),
                 read_buffer |-> r.output_buffer,
                 output_buffer |-> r.read_buffer],
          res |-> "ok"]

\* A chunk step that pops the traversal stack before it verifies the chunk.
take_chunk_pop_first(r, digest) ==
    IF lib_verify(r.read_buffer, digest).st # "ok"
    THEN [r |-> [r EXCEPT !.traversal_stack = SubSeq(@, 1, Len(@) - 1)],
          res |-> "InvalidData"]
    ELSE [r |-> [traversal_stack |->
                     SubSeq(r.traversal_stack, 1, Len(r.traversal_stack) - 1),
                 read_buffer |-> r.output_buffer,
                 output_buffer |-> r.read_buffer],
          res |-> "ok"]

\* The chunk in read_buffer is verified, popped and swapped into
\* output_buffer (lines 164-167).
take_chunk(r, digest) ==
    IF lib_verify(r.read_buffer, digest).st # "ok"
    THEN [r |-> r, res |-> "InvalidData"]
    ELSE [r |-> [traversal_stack |->
                     SubSeq(r.traversal_stack, 1, Len(r.traversal_stack) - 1),
                 read_buffer |-> r.output_buffer,
                 output_buffer |-> r.read_buffer],
          res |-> "ok"]

\* The traversal of read (lines 142-167): parent nodes down to a chunk, then
\* the chunk. fillno counts the fill_vec calls of this read; the call number
\* fault.n is the faulty one, and fault.short is the most the inner reader
\* delivers per read.
RECURSIVE traverse(_, _, _, _, _)
traverse(r, strm, at, fillno, fault) ==
    LET top == r.traversal_stack[Len(r.traversal_stack)]
        digest == top[1]
        plaintext_len == top[2]
    IN  IF plaintext_len > CHUNK_SIZE
        THEN LET f == fill_vec(strm, at, r.read_buffer, 2 * DIGEST_SIZE,
                               fillno = fault.n, fault.k, fault.short)
                 filled == [r EXCEPT !.read_buffer = f.vec]
             IN  IF f.res # "ok"
                 THEN [r |-> filled, ipos |-> f.ipos, res |-> f.res]
                 ELSE IF lib_verify(f.vec, digest).st # "ok"
                 THEN [r |-> filled, ipos |-> f.ipos, res |-> "InvalidData"]
                 ELSE LET left_len_ == left_plaintext_len(plaintext_len)
                          left_digest == f.vec[1]
                          right_len == plaintext_len - left_len_
                          right_digest == f.vec[DIGEST_SIZE + 1]
                      IN  traverse(
                              [r EXCEPT
                                 !.read_buffer = <<>>,
                                 !.traversal_stack =
                                     SubSeq(@, 1, Len(@) - 1)
                                       \o <<(<<right_digest, right_len>>),
                                            (<<left_digest, left_len_>>)>>],
                              strm, f.ipos, fillno + 1, fault)
        ELSE LET f == fill_vec(strm, at, r.read_buffer, plaintext_len,
                               fillno = fault.n, fault.k, fault.short)
                 filled == [r EXCEPT !.read_buffer = f.vec]
             IN  IF f.res # "ok"
                 THEN [r |-> filled, ipos |-> f.ipos, res |-> f.res]
                 ELSE [r |-> take_chunk(filled, digest).r, ipos |-> f.ipos,
                       res |-> take_chunk(filled, digest).res]

\* The first half of read (lines 140-168): when there is nothing to hand out
\* and the tree is not finished, traverse down to a chunk and read it.
read_traversal(r, strm, at, fault) ==
    IF Len(r.output_buffer) = 0 /\ Len(r.traversal_stack) > 0
    THEN traverse(r, strm, at, 1, fault)
    ELSE [r |-> r, ipos |-> at, res |-> "ok"]

\* The return of read: the error the traversal ended in (`?`), or as much of
\* output_buffer as buf has room for (lines 170-175).
read_return(t, buf_len) ==
    IF t.res # "ok"
    THEN [r |-> t.r, ipos |-> t.ipos, out |-> <<>>,
          res |-> [st |-> "err", kind |-> t.res, n |-> 0]]
    ELSE LET write_len == Min(Len(t.r.output_buffer), buf_len)
         IN  [r |-> [t.r EXCEPT !.output_buffer = Drop(@, write_len)],
              ipos |-> t.ipos,
              out |-> Take(t.r.output_buffer, write_len),
              res |-> [st |-> "ok", kind |-> "", n |-> write_len]]

\* RahReader::read(buf) with buf.len() = buf_len: the reader and the inner
\* position after the call, the bytes copied into buf, and Ok(n) or the error.
RahReader_read(r, strm, at, buf_len, fault) ==
    read_return(read_traversal(r, strm, at, fault), buf_len)

\* Seek::seek(pos): the body is `unimplemented!()`, which panics before it
\* touches the reader, whatever the position.
RahReader_seek(r, offset) ==
    [r |-> r, res |-> [st |-> "panic", kind |-> "unimplemented", n |-> 0]]

\* ------------------------------------------------------------ the runs
IdleWriter ==
    /\ fed = <<>> /\ writer = Writer_new /\ wroot = None
    /\ wempty = FALSE /\ wboundary = FALSE
IdleDrive == rest = <<>> /\ state = State_new /\ sroot = None
IdleHash == hroot = None
IdleRayon == tasks = {} /\ rroot = None
IdleFin == fcalls = <<>>
NoRead == [st |-> "none", kind |-> "", n |-> 0]
NoMismatch == [seen |-> FALSE, stack |-> <<>>, emitted |-> <<>>, later |-> 0]
IdleReader ==
    /\ stream = <<>> /\ ipos = 0 /\ reader = RahReader_new(None, 0)
    /\ emitted = <<>> /\ rres = NoRead /\ rbuf = 0 /\ rdigest = None
    /\ rmismatch = NoMismatch
NoCall == [fn |-> "none", given |-> <<>>, chunk_num |-> 0]
NoStateCall == [fn |-> "none", ret |-> ""]
IdleGeom ==
    /\ gn = 0 /\ gcalled = FALSE /\ gleft = 0 /\ gwide = 0 /\ gplain = 0
    /\ gsub = <<0, 0>> /\ gpow = 0
NoArgs == [cmd |-> "none", outboard |-> FALSE, start |-> FALSE, hash_ok |-> FALSE]
NoFile == [is_file |-> FALSE, mappable |-> FALSE]
NoFiles == [input |-> NoFile, output |-> NoFile, outboard |-> NoFile]
IdleCli ==
    /\ cliArgs = NoArgs /\ cliFiles = NoFiles /\ cliPc = "none" /\ cliOps = <<>>
    /\ cliExit = "none"
IdleEnc ==
    /\ ephase = "feeding" /\ estate = State_new /\ erest = <<>> /\ eparents = <<>>
    /\ eroot = None /\ ecall = NoStateCall /\ elost = 0 /\ elate = 0
    /\ edrained = FALSE
IdleCodec ==
    /\ cphase = "start" /\ encoding = <<>> /\ rootDigest = None
    /\ pos = 0 /\ call = NoCall /\ cres = None

\* --------------------------------------------------- the Writer's run
InitWriter ==
    /\ run = "writer"
    /\ input = <<>>
    /\ IdleWriter /\ IdleDrive /\ IdleHash /\ IdleRayon /\ IdleCodec /\ IdleFin /\ IdleReader /\ IdleEnc
    /\ IdleGeom /\ IdleCli

\* writer.update(slice), or io::Write::write(slice).
WriterUpdate ==
    \E slice \in Strings(MaxSlice) :
        /\ run = "writer"
        /\ wroot = None
        /\ Len(fed) + Len(slice) <= MaxLen
        /\ writer' = Writer_update(writer, slice)
        /\ fed' = fed \o slice
        /\ wempty' = (wempty \/ slice = <<>>)
        /\ wboundary' = (wboundary \/ (slice # <<>> /\ fed # <<>>
                                        /\ Len(fed) % CHUNK_SIZE = 0))
        /\ UNCHANGED <<wroot, notWriter>>

\* writer.finish(): the writer cannot be used after this.
WriterFinish ==
    /\ run = "writer"
    /\ wroot = None
    /\ writer' = Writer_finish(writer).writer
    /\ wroot' = Writer_finish(writer).hash
    /\ UNCHANGED <<fed, wempty, wboundary, notWriter>>

NextWriter == WriterUpdate \/ WriterFinish

SpecWriter == InitWriter /\ [][NextWriter]_vars

\* C1: once finish() has returned, the hash it returned is hash(B) for the
\* bytes B that were fed to the Writer.
C1_WriterRootIsHash == wroot # None => wroot = hash(fed)

\* C1 witness: a finished Writer over three full chunks.
C1_Witness == wroot # None /\ Len(fed) = 3 * CHUNK_SIZE /\ wroot = hash(fed)

\* ------------------------------------------- drive_state (hash.rs test)
InitDrive ==
    /\ run = "drive"
    /\ input \in Strings(MaxLen)
    /\ rest = input
    /\ state = State_new
    /\ sroot = None
    /\ IdleWriter /\ IdleHash /\ IdleRayon /\ IdleCodec /\ IdleFin /\ IdleReader /\ IdleEnc
    /\ IdleGeom /\ IdleCli

\* The finalization drive_state fixes before its loop.
drive_finalization(inp) ==
    IF Len(inp) <= CHUNK_SIZE THEN Root(Len(inp)) ELSE NotRoot

\* One turn of `while input.len() > CHUNK_SIZE`.
DrivePush ==
    /\ run = "drive"
    /\ sroot = None
    /\ Len(rest) > CHUNK_SIZE
    /\ state' = push_subtree(state, hash_node(Take(rest, CHUNK_SIZE), NotRoot),
                             CHUNK_SIZE)
    /\ rest' = Drop(rest, CHUNK_SIZE)
    /\ UNCHANGED <<sroot, notDrive>>

\* The push of the last chunk and state.finish().
DriveFinish ==
    /\ run = "drive"
    /\ sroot = None
    /\ Len(rest) <= CHUNK_SIZE
    /\ LET pushed == push_subtree(state,
                         hash_node(rest, drive_finalization(input)), Len(rest))
           fin == State_finish(pushed)
       IN  /\ state' = fin.state
           /\ sroot' = fin.value
    /\ UNCHANGED <<rest, notDrive>>

NextDrive == DrivePush \/ DriveFinish

SpecDrive == InitDrive /\ [][NextDrive]_vars

\* C10: the root that State::finish returns after the chunk hashes of B were
\* pushed one by one is hash(B).
C10_DriveRootIsHash == (run = "drive" /\ sroot # None) => sroot = hash(input)

\* C10 witness: a finished run over five chunks, the last one short.
C10_Witness ==
    /\ run = "drive" /\ sroot # None
    /\ Len(input) = 4 * CHUNK_SIZE + 1
    /\ sroot = hash(input)

\* ------------------------------------------------------------ hash()
InitHash ==
    /\ run = "hash"
    /\ input \in Strings(MaxLen)
    /\ IdleWriter /\ IdleDrive /\ IdleHash /\ IdleRayon /\ IdleCodec /\ IdleFin /\ IdleReader /\ IdleEnc
    /\ IdleGeom /\ IdleCli

\* hash(input)
HashCall ==
    /\ run = "hash"
    /\ hroot = None
    /\ hroot' = hash(input)
    /\ UNCHANGED <<notHash>>

\* The three ways the repository builds a tree hash.
InitTree == InitWriter \/ InitDrive \/ InitHash
NextTree == NextWriter \/ NextDrive \/ HashCall
SpecTree == InitTree /\ [][NextTree]_vars

\* The nodes of the tree under digest d that were finalized with the
\* last-node flag set.
RECURSIVE RootFlagCount(_)
RECURSIVE RootFlagSum(_)
RootFlagSum(syms) ==
    IF syms = <<>>
    THEN 0
    ELSE (IF IsDigest(Head(syms)) THEN RootFlagCount(Head(syms)) ELSE 0)
         + RootFlagSum(Tail(syms))
RootFlagCount(d) == (IF d[2] THEN 1 ELSE 0) + RootFlagSum(d[1])

\* The root digest r of a tree over the bytes B: r itself carries the flag
\* and the suffix encode_len(Len(B)), no node below it carries the flag, and
\* when B fits in one chunk r is the hash of B's bytes themselves.
RootOk(r, B) ==
    /\ Len(r) = 2
    /\ r[2] = TRUE
    /\ Len(r[1]) >= HEADER_SIZE
    /\ SubSeq(r[1], Len(r[1]) - HEADER_SIZE + 1, Len(r[1])) = encode_len(Len(B))
    /\ RootFlagCount(r) = 1
    /\ Len(B) <= CHUNK_SIZE => r[1] = B \o encode_len(Len(B))
    /\ Len(B) > CHUNK_SIZE => Len(r[1]) = PARENT_SIZE + HEADER_SIZE

\* C8: in the tree built by hash(), by Writer and by State driven chunk by
\* chunk, exactly one node is finalized Root, it is the root, its length is
\* the number of input bytes, and an input of one chunk or less is one leaf.
C8_OneRoot ==
    /\ wroot # None => RootOk(wroot, fed)
    /\ sroot # None => RootOk(sroot, input)
    /\ hroot # None => RootOk(hroot, input)

\* C8 witness: drive_state has finished a tree of four chunks, whose last
\* push found three subtrees on the stack.
C8_Witness ==
    /\ run = "drive" /\ sroot # None
    /\ Len(input) = 3 * CHUNK_SIZE + 1
    /\ RootOk(sroot, input)

\* ------------------------------------- hash_recurse_rayon as fork-join
\* A call of hash_recurse_rayon on input[off+1 .. off+len] with finalization
\* fin is a task: "pending" until a worker starts it, "joining" while its two
\* closures are in rayon::join, "done" once it has returned its hash.
Task(off, len, fin, st, h) ==
    [off |-> off, len |-> len, fin |-> fin, st |-> st, hash |-> h]
TaskInput(t) == SubSeq(input, t.off + 1, t.off + t.len)
LeftOf(t) == CHOOSE c \in tasks : c.off = t.off /\ c.len = left_len(t.len)
RightOf(t) ==
    CHOOSE c \in tasks :
        c.off = t.off + left_len(t.len) /\ c.len = t.len - left_len(t.len)

\* A join that returns as soon as its first closure has.
join_returns_after_left(l, r) == l.st = "done"
\* rayon::join returns once both closures have returned.
join_returns(l, r) == l.st = "done" /\ r.st = "done"

InitRayon ==
    /\ run = "rayon"
    /\ input \in Strings(MaxLen)
    /\ tasks = {Task(0, Len(input), Root(Len(input)), "pending", None)}
    /\ rroot = None
    /\ IdleWriter /\ IdleDrive /\ IdleHash /\ IdleCodec /\ IdleFin /\ IdleReader /\ IdleEnc
    /\ IdleGeom /\ IdleCli

\* A worker runs a call whose input is one chunk or less: hash_node.
RayonLeaf ==
    \E t \in tasks :
        /\ run = "rayon"
        /\ t.st = "pending"
        /\ t.len <= CHUNK_SIZE
        /\ tasks' = (tasks \ {t})
              \cup {[t EXCEPT !.st = "done", !.hash = hash_node(TaskInput(t), t.fin)]}
        /\ UNCHANGED <<rroot, notRayon>>

\* A worker runs a call on a longer input: it splits at left_len and hands
\* both halves to rayon::join, which may run them in any order or at once.
RayonFork ==
    \E t \in tasks :
        /\ run = "rayon"
        /\ t.st = "pending"
        /\ t.len > CHUNK_SIZE
        /\ LET l == left_len(t.len) IN
           tasks' = (tasks \ {t})
              \cup {[t EXCEPT !.st = "joining"],
                    Task(t.off, l, NotRoot, "pending", None),
                    Task(t.off + l, t.len - l, NotRoot, "pending", None)}
        /\ UNCHANGED <<rroot, notRayon>>

\* rayon::join returns (left_hash, right_hash) and the call returns
\* parent_hash of them.
RayonJoin ==
    \E t \in tasks :
        /\ run = "rayon"
        /\ t.st = "joining"
        /\ join_returns(LeftOf(t), RightOf(t))
        /\ tasks' = (tasks \ {t, LeftOf(t), RightOf(t)})
              \cup {[t EXCEPT !.st = "done",
                       !.hash = parent_hash(LeftOf(t).hash, RightOf(t).hash, t.fin)]}
        /\ UNCHANGED <<rroot, notRayon>>

\* The outermost call returns to its caller.
RayonReturn ==
    \E t \in tasks :
        /\ run = "rayon"
        /\ rroot = None
        /\ t.off = 0 /\ t.len = Len(input) /\ t.st = "done"
        /\ rroot' = t.hash
        /\ UNCHANGED <<tasks, notRayon>>

NextRayon == RayonLeaf \/ RayonFork \/ RayonJoin \/ RayonReturn

SpecRayon == InitRayon /\ [][NextRayon]_vars

\* C9: whatever the order in which the forked calls run and return, the hash
\* the fork-join call returns is the hash of the serial hash_recurse, and the
\* hash of hash().
C9_ParallelIsSerial ==
    rroot # None =>
        /\ rroot = hash_recurse(input, Root(Len(input)))
        /\ rroot = hash(input)

\* C9 witness: a finished fork-join over five chunks, the size at which
\* hash() itself takes the parallel path.
C9_Witness ==
    /\ rroot # None
    /\ Len(input) > MAX_SINGLE_THREADED
    /\ rroot = hash(input)

\* ------------------------------------------- encode / decode / decode_chunk
\* A rootDigest that is the hash of no node of any encoding here.
GarbageDigest == lib_hash(<<ByteSym(0), ByteSym(0), ByteSym(0)>>)

\* What a changed byte can turn the symbol at position p into: another byte
\* value, or a rootDigest that differs from the one that was there.
TamperValues(enc, p) ==
    IF IsDigest(enc[p]) THEN {GarbageDigest} ELSE ByteSyms \ {enc[p]}

InitCodec ==
    /\ run = "codec"
    /\ input \in Strings(MaxCodecLen)
    /\ IdleWriter /\ IdleDrive /\ IdleHash /\ IdleRayon /\ IdleCodec /\ IdleFin /\ IdleReader /\ IdleEnc
    /\ IdleGeom /\ IdleCli

\* let (encoded, digest) = encode(input)
CodecEncode ==
    /\ run = "codec"
    /\ cphase = "start"
    /\ encoding' = encode(input).encoded
    /\ rootDigest' = encode(input).digest
    /\ cphase' = "encoded"
    /\ UNCHANGED <<pos, call, cres, notCodec>>

\* The storage layer changes one byte of the encoding.
CodecTamper ==
    \E p \in 1..Len(encoding) : \E v \in TamperValues(encoding, p) :
        /\ run = "codec"
        /\ cphase = "encoded"
        /\ pos = 0
        /\ encoding' = [encoding EXCEPT ![p] = v]
        /\ pos' = p
        /\ UNCHANGED <<cphase, rootDigest, call, cres, notCodec>>

\* decode(&encoded, &digest)
CodecDecode ==
    /\ run = "codec"
    /\ cphase = "encoded"
    /\ call' = [fn |-> "decode", given |-> encoding, chunk_num |-> 0]
    /\ cres' = decode(encoding, rootDigest)
    /\ cphase' = "called"
    /\ UNCHANGED <<encoding, rootDigest, pos, notCodec>>

\* decode(&encoded[..2 * DIGEST_SIZE], &digest): the storage layer presents
\* the first parent node alone as the encoding.
CodecDecodeNode ==
    /\ run = "codec"
    /\ cphase = "encoded"
    /\ pos = 0
    /\ Len(encoding) > 2 * DIGEST_SIZE
    /\ call' = [fn |-> "decode", given |-> Take(encoding, 2 * DIGEST_SIZE),
                chunk_num |-> 0]
    /\ cres' = decode(Take(encoding, 2 * DIGEST_SIZE), rootDigest)
    /\ cphase' = "called"
    /\ UNCHANGED <<encoding, rootDigest, pos, notCodec>>

\* decode_chunk(&encoded, &digest, i), also for an i past the last chunk.
CodecDecodeChunk ==
    \E i \in 0..(MaxCodecLen \div CHUNK_SIZE + 1) :
        /\ run = "codec"
        /\ cphase = "encoded"
        /\ call' = [fn |-> "decode_chunk", given |-> encoding, chunk_num |-> i]
        /\ cres' = decode_chunk(encoding, rootDigest, i)
        /\ cphase' = "called"
        /\ UNCHANGED <<encoding, rootDigest, pos, notCodec>>

\* decode(&encoded[..t], &digest): the storage layer lost the tail of the
\* encoding.
CodecDecodePrefix ==
    \E t \in 0..(Len(encoding) - 1) :
        /\ run = "codec"
        /\ cphase = "encoded"
        /\ pos = 0
        /\ call' = [fn |-> "decode", given |-> Take(encoding, t), chunk_num |-> 0]
        /\ cres' = decode(Take(encoding, t), rootDigest)
        /\ cphase' = "called"
        /\ UNCHANGED <<encoding, rootDigest, pos, notCodec>>

\* decode_chunk(&encoded[..t], &digest, i)
CodecDecodeChunkPrefix ==
    \E t \in 0..(Len(encoding) - 1) : \E i \in 0..(MaxCodecLen \div CHUNK_SIZE + 1) :
        /\ run = "codec"
        /\ cphase = "encoded"
        /\ pos = 0
        /\ call' = [fn |-> "decode_chunk", given |-> Take(encoding, t), chunk_num |-> i]
        /\ cres' = decode_chunk(Take(encoding, t), rootDigest, i)
        /\ cphase' = "called"
        /\ UNCHANGED <<encoding, rootDigest, pos, notCodec>>

NextCodec == CodecEncode \/ CodecTamper \/ CodecDecode \/ CodecDecodeNode
             \/ CodecDecodeChunk \/ CodecDecodePrefix \/ CodecDecodeChunkPrefix

SpecCodec == InitCodec /\ [][NextCodec]_vars

\* Where encode puts things, for a plaintext of n bytes: the length of the
\* encoding, the number of chunks, the positions of chunk i's bytes and the
\* positions of the parent nodes on the path from the root to chunk i.
RECURSIVE EncLen(_)
EncLen(n) ==
    IF n <= CHUNK_SIZE THEN n
    ELSE 2 * DIGEST_SIZE + EncLen(left_plaintext_len(n))
         + EncLen(n - left_plaintext_len(n))
RECURSIVE NumChunks(_)
NumChunks(n) ==
    IF n <= CHUNK_SIZE THEN 1
    ELSE NumChunks(left_plaintext_len(n)) + NumChunks(n - left_plaintext_len(n))
Shift(k, S) == {k + x : x \in S}
RECURSIVE ChunkPositions(_, _)
ChunkPositions(n, i) ==
    IF n <= CHUNK_SIZE THEN (IF i = 0 THEN 1..n ELSE {})
    ELSE LET l == left_plaintext_len(n) IN
         IF i < NumChunks(l)
         THEN Shift(2 * DIGEST_SIZE, ChunkPositions(l, i))
         ELSE Shift(2 * DIGEST_SIZE + EncLen(l), ChunkPositions(n - l, i - NumChunks(l)))
RECURSIVE PathPositions(_, _)
PathPositions(n, i) ==
    IF n <= CHUNK_SIZE THEN {}
    ELSE LET l == left_plaintext_len(n) IN
         (1..(2 * DIGEST_SIZE)) \cup
         (IF i < NumChunks(l)
          THEN Shift(2 * DIGEST_SIZE, PathPositions(l, i))
          ELSE Shift(2 * DIGEST_SIZE + EncLen(l),
                     PathPositions(n - l, i - NumChunks(l))))
\* The bytes of chunk i of the plaintext B.
ChunkOf(B, i) == SubSeq(B, i * CHUNK_SIZE + 1, Min((i + 1) * CHUNK_SIZE, Len(B)))

\* C2: decode of an unchanged encoding with the rootDigest encode returned is
\* Ok with exactly the bytes of the input.
C2_RoundTrip ==
    (cphase = "called" /\ call.fn = "decode" /\ pos = 0 /\ call.given = encoding)
        => cres = Ok(input)

\* C2 witness: a round trip of the longest input, with its parent nodes.
C2_Witness ==
    /\ cphase = "called" /\ call.fn = "decode" /\ pos = 0 /\ call.given = encoding
    /\ Len(input) = MaxCodecLen
    /\ Len(encoding) = Len(input) + 2 * DIGEST_SIZE * (NumChunks(Len(input)) - 1)
    /\ cres = Ok(input)

\* C4: once a byte of the encoding has changed, decode_chunk returns an error
\* for every chunk whose bytes, or whose path from the root, hold that byte.
C4_TamperDetected ==
    (/\ cphase = "called" /\ call.fn = "decode_chunk" /\ pos # 0
     /\ call.chunk_num < NumChunks(Len(input))
     /\ pos \in ChunkPositions(Len(input), call.chunk_num)
                \cup PathPositions(Len(input), call.chunk_num))
        => cres = Err

\* C4 witness: a byte of the first parent node has changed and decode_chunk
\* of the last of three chunks has returned an error.
C4_Witness ==
    /\ cphase = "called" /\ call.fn = "decode_chunk"
    /\ NumChunks(Len(input)) = 3 /\ call.chunk_num = 2
    /\ pos = 1
    /\ cres = Err

\* C5: once a byte inside chunk j has changed, decode_chunk of every other
\* chunk i still returns Ok with the bytes of chunk i.
C5_TamperLocal ==
    (/\ cphase = "called" /\ call.fn = "decode_chunk" /\ pos # 0
     /\ call.chunk_num < NumChunks(Len(input))
     /\ \E j \in 0..(NumChunks(Len(input)) - 1) :
            j # call.chunk_num /\ pos \in ChunkPositions(Len(input), j))
        => cres = Ok(ChunkOf(input, call.chunk_num))

\* C5 witness: the last byte of a three-chunk encoding has changed and
\* decode_chunk of chunk 1 has returned its bytes.
C5_Witness ==
    /\ cphase = "called" /\ call.fn = "decode_chunk"
    /\ NumChunks(Len(input)) = 3 /\ call.chunk_num = 1
    /\ pos = Len(encoding)
    /\ cres = Ok(ChunkOf(input, 1))

\* C6: decode given the root rootDigest of a multi-chunk input and, as the
\* encoding, the root parent node alone, returns an error.
C6_InteriorIsNotRoot ==
    (/\ cphase = "called" /\ call.fn = "decode"
     /\ Len(input) > CHUNK_SIZE
     /\ call.given = Take(encoding, 2 * DIGEST_SIZE))
        => cres = Err

\* C12: decode and decode_chunk given a strict prefix of an encoding and the
\* digest encode returned both return Err: no plaintext and no panic.
C12_TruncationIsErr ==
    (/\ cphase = "called" /\ pos = 0
     /\ Len(call.given) < Len(encoding)
     /\ call.given = Take(encoding, Len(call.given)))
        => cres = Err

\* The two ways C12 fails apart from the acceptance of the root parent node
\* (C6): a slice index past the end of the prefix panics, and decode_chunk
\* returns a chunk that lies whole inside the prefix.
C12_TruncationNeverPanics ==
    (/\ cphase = "called" /\ pos = 0
     /\ Len(call.given) < Len(encoding)
     /\ call.given = Take(encoding, Len(call.given)))
        => cres # Panicked

\* The parent nodes the size law counts for n bytes: one per chunk beyond the
\* first.
ParentBytes(n) ==
    LET chunks == (n + CHUNK_SIZE - 1) \div CHUNK_SIZE
    IN  2 * DIGEST_SIZE * (IF chunks > 1 THEN chunks - 1 ELSE 0)

\* C13: the encoding encode returns for N bytes is HEADER_SIZE + N bytes long
\* plus one parent node per chunk beyond the first; for the empty input it is
\* HEADER_SIZE bytes long.
C13_SizeLaw ==
    (run = "codec" /\ cphase # "start")
        => Len(encoding) = HEADER_SIZE + Len(input) + ParentBytes(Len(input))

\* What encode does return: the same law without the header.
C13_SizeWithoutHeader ==
    (run = "codec" /\ cphase # "start")
        => Len(encoding) = Len(input) + ParentBytes(Len(input))

\* ------------------------------------------------- finalization of nodes
\* Node bodies: short chunks, chunks that end in what a length suffix looks
\* like (a chunk of the code can hold one: HEADER_SIZE < 4096), and parent
\* nodes.
ChunkBodies ==
    Strings(MaxBody)
        \cup {x \o encode_len(n) : x \in Strings(MaxBody), n \in 0..MaxRootLen}
ChildHashes == {hash_node(<<>>, NotRoot), hash_node(<<ByteSym(0)>>, NotRoot)}
Finalizations == {NotRoot} \cup {Root(n) : n \in 0..MaxRootLen}

InitFin ==
    /\ run = "finalize"
    /\ input = <<>>
    /\ IdleWriter /\ IdleDrive /\ IdleHash /\ IdleRayon /\ IdleCodec /\ IdleFin /\ IdleReader /\ IdleEnc
    /\ IdleGeom /\ IdleCli

\* A chunk is fed to a fresh state and finalized (hash_node, Writer).
FinalizeChunk ==
    \E body \in ChunkBodies : \E fin \in Finalizations :
        /\ run = "finalize"
        /\ Len(fcalls) < 2
        /\ fcalls' = Append(fcalls,
              [body |-> body, fin |-> fin,
               hash |-> finalize_hash(blake_update(new_blake2b_state, body), fin).hash])
        /\ UNCHANGED <<notFin>>

\* parent_hash(left, right, fin)
FinalizeParent ==
    \E l \in ChildHashes : \E r \in ChildHashes : \E fin \in Finalizations :
        /\ run = "finalize"
        /\ Len(fcalls) < 2
        /\ fcalls' = Append(fcalls,
              [body |-> <<l, r>>, fin |-> fin, hash |-> parent_hash(l, r, fin)])
        /\ UNCHANGED <<notFin>>

NextFin == FinalizeChunk \/ FinalizeParent

SpecFin == InitFin /\ [][NextFin]_vars

\* C7: a hash finalized NotRoot never equals a hash finalized Root(n), whatever
\* the two node bodies are, and Root(n) and Root(m) of one body differ when
\* n # m.
C7_DomainSeparation ==
    \A i \in 1..Len(fcalls) : \A j \in 1..Len(fcalls) :
        /\ (fcalls[i].fin.root /\ ~fcalls[j].fin.root)
              => fcalls[i].hash # fcalls[j].hash
        /\ (/\ fcalls[i].fin.root /\ fcalls[j].fin.root
            /\ fcalls[i].body = fcalls[j].body
            /\ fcalls[i].fin.len # fcalls[j].fin.len)
              => fcalls[i].hash # fcalls[j].hash

\* C7 witness: a chunk x finalized Root(1) and the chunk x \o encode_len(1)
\* finalized NotRoot, which the primitive is fed the same bytes for.
C7_Witness ==
    /\ Len(fcalls) = 2
    /\ fcalls[1].fin = Root(1) /\ fcalls[2].fin = NotRoot
    /\ fcalls[2].body = fcalls[1].body \o encode_len(1)
    /\ fcalls[1].hash[1] = fcalls[2].hash[1]
    /\ fcalls[1].hash # fcalls[2].hash

\* ------------------------------------------------------------- RahReader
\* What the inner reader may hold for the input B: the encoding, the
\* encoding with one byte changed, or the encoding cut short.
StreamsOf(B) ==
    LET enc == encode(B).encoded IN
    {enc}
      \cup UNION {{[enc EXCEPT ![p] = v] : v \in TamperValues(enc, p)} : p \in 1..Len(enc)}
      \cup {Take(enc, t) : t \in 0..Len(enc)}

\* RahReader::new(inner_reader, &digest, plaintext_len) with the length of B
\* and either the digest of B or a digest of something else.
InitReader ==
    /\ run = "reader"
    /\ input \in Strings(MaxReadLen)
    /\ stream \in StreamsOf(input)
    /\ ipos = 0
    /\ rdigest \in {encode(input).digest, GarbageDigest}
    /\ reader = RahReader_new(rdigest, Len(input))
    /\ emitted = <<>>
    /\ rres = NoRead
    /\ rbuf = 0
    /\ rmismatch = NoMismatch
    /\ IdleWriter /\ IdleDrive /\ IdleHash /\ IdleRayon /\ IdleCodec /\ IdleFin /\ IdleEnc
    /\ IdleGeom /\ IdleCli

\* An inner reader that never returns Err and delivers at most `short` bytes
\* per read.
NoFault(short) == [n |-> 0, k |-> 0, short |-> short]

\* What the caller of a read notes: the first hash mismatch it is returned,
\* with the reader's traversal stack and the bytes emitted at that moment,
\* and the read calls it makes after it.
NoteRead(c) ==
    IF rmismatch.seen
    THEN [rmismatch EXCEPT !.later = Min(@ + 1, MaxLater)]
    ELSE IF c.res.st = "err" /\ c.res.kind = "InvalidData"
    THEN [seen |-> TRUE, stack |-> c.r.traversal_stack,
          emitted |-> emitted \o c.out, later |-> 0]
    ELSE rmismatch

\* reader.read(buf) where the inner reader returns no Err: each of its reads
\* delivers at most `short` bytes, as long as it has any.
ReaderRead ==
    \E short \in 1..read_buf_len :
      \E t \in {read_traversal(reader, stream, ipos, NoFault(short))} :
      \E buf_len \in 0..MaxBuf : \E c \in {read_return(t, buf_len)} :
        /\ run = "reader"
        /\ rres.st # "panic"
        /\ reader' = c.r
        /\ ipos' = c.ipos
        /\ emitted' = emitted \o c.out
        /\ rres' = c.res
        /\ rbuf' = buf_len
        /\ rmismatch' = NoteRead(c)
        /\ UNCHANGED <<stream, rdigest, notReader>>

\* reader.read(buf) where the inner reader fails during the n-th fill_vec of
\* the call, after k more bytes. A read calls fill_vec once per parent node
\* on its way down and once for the chunk: never more often than the tree has
\* chunks.
ReaderReadFault ==
    \E n \in 1..NumChunks(Len(input)) : \E k \in 0..(CHUNK_SIZE - 1) :
      \E t \in {read_traversal(reader, stream, ipos,
                                [n |-> n, k |-> k, short |-> read_buf_len])} :
      \E buf_len \in 0..MaxBuf : \E c \in {read_return(t, buf_len)} :
        /\ run = "reader"
        /\ rres.st # "panic"
        /\ c.res.st = "err" /\ c.res.kind = "Io"
        /\ reader' = c.r
        /\ ipos' = c.ipos
        /\ emitted' = emitted \o c.out
        /\ rres' = c.res
        /\ rbuf' = buf_len
        /\ rmismatch' = NoteRead(c)
        /\ UNCHANGED <<stream, rdigest, notReader>>

\* reader.seek(SeekFrom::Start(offset)). A panic unwinds the caller: no
\* further call is made on the reader.
ReaderSeek ==
    \E offset \in 0..MaxSeek :
        /\ run = "reader"
        /\ rres.st # "panic"
        /\ reader' = RahReader_seek(reader, offset).r
        /\ rres' = RahReader_seek(reader, offset).res
        /\ UNCHANGED <<stream, ipos, emitted, rbuf, rdigest, rmismatch, notReader>>

NextReader == ReaderRead \/ ReaderReadFault \/ ReaderSeek

SpecReader == InitReader /\ [][NextReader]_vars

IsPrefix(a, b) == Len(a) <= Len(b) /\ a = SubSeq(b, 1, Len(a))

\* C3: whatever the inner reader holds, every byte the reader has copied into
\* the caller's buffers, and every byte it holds ready to copy, is a byte of
\* the input whose root digest the reader was given, at its place: it comes
\* from a chunk that matched its digest below parents that matched theirs.
C3_OnlyVerifiedBytes ==
    run = "reader" => IsPrefix(emitted \o reader.output_buffer, input)

\* C3 witness: the reader has emitted the first chunk and then refused a
\* changed second one.
C3_Witness ==
    /\ run = "reader"
    /\ rdigest = encode(input).digest
    /\ stream # encode(input).encoded
    /\ Len(emitted) = CHUNK_SIZE
    /\ rres.st = "err" /\ rres.kind = "InvalidData"

\* The reader was built as the claim of a round trip has it: over the
\* encoding of B, with the digest encode returned for B.
Genuine ==
    run = "reader" /\ stream = encode(input).encoded /\ rdigest = encode(input).digest

\* The reader has nothing left to traverse and nothing left to hand out.
AtEnd == Len(reader.traversal_stack) = 0 /\ reader.output_buffer = <<>>

\* C11: a reader over encode(B), given B's digest and length, hands out the
\* bytes of B in order whatever the buffer sizes and however short the inner
\* reads are: it fails only where the inner reader did, a read into a buffer
\* with room returns no bytes only once all of B has been handed out, and from
\* then on every read returns Ok(0). With the digest of something else even
\* the empty input is refused.
C11_SequentialRoundTrip ==
    /\ Genuine =>
        /\ rres.st = "err" => rres.kind = "Io"
        /\ IsPrefix(emitted, input)
        /\ (rres.st = "ok" /\ rbuf > 0 /\ rres.n = 0) => (emitted = input /\ AtEnd)
        /\ AtEnd =>
            /\ emitted = input
            /\ \A b \in 0..MaxBuf : \A short \in 1..read_buf_len :
                 LET c == RahReader_read(reader, stream, ipos, b, NoFault(short))
                 IN  c.res = [st |-> "ok", kind |-> "", n |-> 0] /\ c.r = reader
    /\ (run = "reader" /\ rdigest # encode(input).digest)
          => (rres.st # "ok" /\ emitted = <<>>)

\* C11 witness: all of the longest input, three chunks, has been handed out
\* and a read into a buffer with room has returned Ok(0).
C11_Witness ==
    /\ Genuine /\ AtEnd
    /\ Len(input) = MaxReadLen
    /\ emitted = input
    /\ rres.st = "ok" /\ rres.n = 0 /\ rbuf > 0

\* C14: seek(offset) on the reader returns normally (and leaves the reader
\* at the leaf that covers offset): no seek ends in a panic.
C14_SeekReturns == run = "reader" => rres.st # "panic"

\* The reader was given B's digest and the inner reader holds the encoding of
\* B cut short, or the encoding with the byte at TamperedAt changed.
Truncated ==
    /\ run = "reader" /\ rdigest = encode(input).digest
    /\ Len(stream) < Len(encode(input).encoded)
    /\ stream = Take(encode(input).encoded, Len(stream))
Tampered ==
    /\ run = "reader" /\ rdigest = encode(input).digest
    /\ Len(stream) = Len(encode(input).encoded)
    /\ stream # encode(input).encoded
TamperedAt == CHOOSE p \in 1..Len(stream) : stream[p] # encode(input).encoded[p]

\* The chunks at the head of B that the reader can reach when only the
\* positions S of the encoding are there and intact: their bytes and every
\* parent node above them lie in S, and so do those of each chunk before.
WholeChunks(S) ==
    Cardinality({i \in 0..(NumChunks(Len(input)) - 1) :
        \A j \in 0..i :
            (ChunkPositions(Len(input), j) \cup PathPositions(Len(input), j)) \subseteq S})

\* What a read fails with once the reader has nothing left to hand out and
\* has handed out `whole` chunks: the error `kind`, with nothing copied.
FailsWith(kind, whole) ==
    /\ rres.st = "err" => rres.kind \in {kind, "Io"}
    /\ (rres.st = "err" /\ rres.kind = kind)
          => /\ reader.output_buffer = <<>>
             /\ emitted = Take(input, CHUNK_SIZE * whole)
    /\ IsPrefix(emitted \o reader.output_buffer, Take(input, CHUNK_SIZE * whole))
    /\ (rres.st = "ok" /\ rbuf > 0) => rres.n > 0
    /\ ~AtEnd
    /\ (reader.output_buffer = <<>> /\ Len(emitted) = CHUNK_SIZE * whole)
          => \A short \in 1..read_buf_len :
                LET c == RahReader_read(reader, stream, ipos, rbuf, NoFault(short))
                IN  /\ c.res = [st |-> "err", kind |-> kind, n |-> 0]
                    /\ c.out = <<>>
                    /\ c.r.output_buffer = <<>>

\* C25: over an encoding cut short, inside a parent node, inside a chunk or
\* between two of them, the reader hands out the chunks that are there whole
\* and then each read returns UnexpectedEof, with none of the bytes of the
\* chunk it could not complete; over an encoding with a changed byte it hands
\* out the chunks before the first one whose bytes or parents hold that byte
\* and then each read returns InvalidData, with none of that chunk's bytes.
\* No read reports the end of the input. The only other error is the inner
\* reader's own.
C25_ReaderFailures ==
    /\ Truncated => FailsWith("UnexpectedEof", WholeChunks(1..Len(stream)))
    /\ Tampered => FailsWith("InvalidData", WholeChunks((1..Len(stream)) \ {TamperedAt}))

\* C25 witness: the encoding of three chunks ends inside the second chunk;
\* the reader handed out the first one, holds back the one byte it read of
\* the second and returned UnexpectedEof.
C25_Witness ==
    /\ Truncated
    /\ Len(input) = 2 * CHUNK_SIZE + 1
    /\ ChunkPositions(Len(input), 1) \cap (1..Len(stream)) # {}
    /\ ~(ChunkPositions(Len(input), 1) \subseteq (1..Len(stream)))
    /\ emitted = Take(input, CHUNK_SIZE)
    /\ Len(reader.read_buffer) = 1
    /\ rres = [st |-> "err", kind |-> "UnexpectedEof", n |-> 0]

\* C29: once a read has returned a hash mismatch, every read after it
\* returns that error again, the traversal stack stays as it was at that
\* moment, and not one more byte is emitted; the reader neither reads from
\* the inner reader again nor holds any byte ready to hand out.
C29_MismatchIsSticky ==
    (run = "reader" /\ rmismatch.seen) =>
        /\ rres.st # "panic" => rres = [st |-> "err", kind |-> "InvalidData", n |-> 0]
        /\ reader.traversal_stack = rmismatch.stack
        /\ emitted = rmismatch.emitted
        /\ reader.output_buffer = <<>>
        /\ \A b \in 0..MaxBuf : \A short \in 1..read_buf_len :
              LET c == RahReader_read(reader, stream, ipos, b, NoFault(short))
              IN  /\ c.res = [st |-> "err", kind |-> "InvalidData", n |-> 0]
                  /\ c.r = reader /\ c.ipos = ipos /\ c.out = <<>>

\* C29 witness: a read returned a hash mismatch on the changed third chunk
\* after the first two were handed out; a later read, into a buffer with
\* room, returned it again.
C29_Witness ==
    /\ Tampered
    /\ rmismatch.seen /\ rmismatch.later >= 1
    /\ Len(input) = 2 * CHUNK_SIZE + 1
    /\ emitted = Take(input, 2 * CHUNK_SIZE)
    /\ rbuf > 0
    /\ rres = [st |-> "err", kind |-> "InvalidData", n |-> 0]

\* ------------------------------------- State driven by a caller, call by call
\* The calls of drive_state and of an encoder on State, one call per step:
\* push_subtree for each chunk, merge_parent whenever the caller likes between
\* them, then merge_finish until it returns Root. The caller that never calls
\* merge_parent is the one that State::finish and Writer are.
RECURSIVE Pow2(_)
Pow2(n) == IF n = 0 THEN 1 ELSE 2 * Pow2(n - 1)
RECURSIVE Log2(_)
Log2(n) == IF n <= 1 THEN 0 ELSE 1 + Log2(n \div 2)
\* CHUNK_SIZE = 2^ChunkBits (12 in the code).
ChunkBits == Log2(CHUNK_SIZE)
\* The longest input a length of LenBits bits can count.
MaxTotalLen == Pow2(LenBits) - 1
Zeros(n) == [i \in 1..n |-> ByteSym(0)]

\* The chunks the caller has pushed so far.
Pushes ==
    (Len(input) - Len(erest)) \div CHUNK_SIZE + (IF ephase = "feeding" THEN 0 ELSE 1)

\* Inputs of every content up to MaxLen bytes, and inputs of every length a
\* LenBits-bit length can count.
InitEnc ==
    /\ run = "encoder"
    /\ input \in Strings(MaxLen) \cup {Zeros(n) : n \in 0..MaxTotalLen}
    /\ ephase = "feeding"
    /\ estate = State_new
    /\ erest = input
    /\ eparents = <<>>
    /\ eroot = None
    /\ ecall = NoStateCall
    /\ elost = 0
    /\ elate = 0
    /\ edrained = FALSE
    /\ IdleWriter /\ IdleDrive /\ IdleHash /\ IdleRayon /\ IdleCodec /\ IdleFin /\ IdleReader
    /\ IdleGeom /\ IdleCli

\* state.push_subtree(&hash, CHUNK_SIZE) for a chunk that is not the last.
EncPush ==
    /\ run = "encoder"
    /\ ephase = "feeding"
    /\ Len(erest) > CHUNK_SIZE
    /\ estate' = push_subtree(estate, hash_node(Take(erest, CHUNK_SIZE), NotRoot),
                              CHUNK_SIZE)
    /\ erest' = Drop(erest, CHUNK_SIZE)
    /\ elost' = elost + Len(estate.subtrees) - Len(MergeWhileNeeded(estate).subtrees)
    /\ ecall' = [fn |-> "push_subtree", ret |-> ""]
    /\ UNCHANGED <<ephase, eparents, eroot, elate, edrained, notEnc>>

\* state.push_subtree(&hash, input.len()) for the last chunk, finalized as
\* the root when it is the whole input.
EncFinalPush ==
    /\ run = "encoder"
    /\ ephase = "feeding"
    /\ Len(erest) <= CHUNK_SIZE
    /\ estate' = push_subtree(estate, hash_node(erest, drive_finalization(input)),
                              Len(erest))
    /\ ephase' = "final"
    /\ elost' = elost + Len(estate.subtrees) - Len(MergeWhileNeeded(estate).subtrees)
    /\ ecall' = [fn |-> "push_subtree", ret |-> ""]
    /\ UNCHANGED <<erest, eparents, eroot, elate, edrained, notEnc>>

\* state.merge_parent(), before or after the final push. A panic (the
\* unwrap of a pop from an empty stack) ends the run.
EncMergeParent ==
    \E r \in {merge_parent(estate)} :
        /\ run = "encoder"
        /\ ephase \in {"feeding", "final"}
        /\ ~estate.panicked
        /\ estate' = r.state
        /\ eparents' = IF r.parent = None
                       THEN eparents
                       ELSE Append(eparents, [node |-> r.parent, after |-> Pushes,
                                              by |-> "merge_parent"])
        /\ ecall' = [fn |-> "merge_parent",
                     ret |-> IF r.state.panicked THEN "panic"
                             ELSE IF r.parent = None THEN "None" ELSE "Some"]
        /\ elate' = elate + (IF ephase = "final" /\ r.parent # None THEN 1 ELSE 0)
        /\ UNCHANGED <<ephase, erest, eroot, elost, edrained, notEnc>>

\* state.merge_finish(), after the final push, also once it has returned
\* Root.
EncMergeFinish ==
    \E r \in {merge_finish(estate)} :
        /\ run = "encoder"
        /\ ephase \in {"final", "finishing", "done"}
        /\ ~estate.panicked
        /\ estate' = r.state
        /\ eparents' = IF r.kind = "Parent"
                       THEN Append(eparents, [node |-> r.value, after |-> Pushes,
                                              by |-> "merge_finish"])
                       ELSE eparents
        /\ eroot' = IF r.kind = "Parent" THEN eroot ELSE r.value
        /\ ephase' = IF r.kind = "Parent" THEN "finishing" ELSE "done"
        /\ ecall' = [fn |-> "merge_finish", ret |-> r.kind]
        /\ edrained' = IF ephase = "final" THEN ~needs_merge(estate) ELSE edrained
        /\ UNCHANGED <<erest, elost, elate, notEnc>>

NextEnc == EncPush \/ EncFinalPush \/ EncMergeParent \/ EncMergeFinish

SpecEnc == InitEnc /\ [][NextEnc]_vars

FedFullChunks ==
    /\ run = "encoder" /\ ephase \in {"feeding", "final"}
    /\ Pushes >= 1
    /\ estate.total_len = Pushes * CHUNK_SIZE

\* C19: for a State fed k >= 1 full chunks, the stack holds popcount(k - 1) + 1
\* hashes right after a push, popcount(total_len / CHUNK_SIZE) = popcount(k)
\* hashes once merge_parent has returned None, and the same number at the
\* moment the next push_subtree has done its own merging and appends.
C19_CarryPropagation ==
    FedFullChunks =>
        /\ ecall.fn = "push_subtree"
              => Len(estate.subtrees) = count_ones(Pushes - 1) + 1
        /\ (ecall.fn = "merge_parent" /\ ecall.ret = "None")
              => /\ Len(estate.subtrees) = count_ones(estate.total_len \div CHUNK_SIZE)
                 /\ Len(estate.subtrees) = count_ones(Pushes)
        /\ Len(MergeWhileNeeded(estate).subtrees) = count_ones(Pushes)

\* C19 witness: four full chunks pushed and merge_parent drained: three
\* parents were returned and one subtree is left.
C19_Witness ==
    /\ FedFullChunks
    /\ Pushes = 4
    /\ ecall.fn = "merge_parent" /\ ecall.ret = "None"
    /\ Len(eparents) = 3
    /\ Len(estate.subtrees) = 1

\* The parent nodes of the tree over inp whose shape left_len defines, in
\* post-order (left subtree, right subtree, then the node), and the number
\* of input bytes each of them covers.
RECURSIVE PostOrder(_)
PostOrder(inp) ==
    IF Len(inp) <= CHUNK_SIZE
    THEN <<>>
    ELSE LET l == left_len(Len(inp))
         IN  PostOrder(Take(inp, l)) \o PostOrder(Drop(inp, l))
               \o <<(<<hash_recurse(Take(inp, l), NotRoot),
                       hash_recurse(Drop(inp, l), NotRoot)>>)>>
RECURSIVE PostOrderSizes(_)
PostOrderSizes(n) ==
    IF n <= CHUNK_SIZE
    THEN <<>>
    ELSE PostOrderSizes(left_len(n)) \o PostOrderSizes(n - left_len(n)) \o <<n>>

\* The parent nodes the caller was returned, in the order of the calls.
ParentNodes == [i \in 1..Len(eparents) |-> eparents[i].node]

\* C20: for a caller that had merge_parent drained before each push, the
\* parents returned so far are the first ones of the post-order of the tree,
\* and all of it once merge_finish has returned Root, the root parent last;
\* two parents returned one after the other with no push in between come
\* smaller subtree first.
C20_ParentsInPostOrder ==
    (run = "encoder" /\ elost = 0) =>
        /\ IsPrefix(ParentNodes, PostOrder(input))
        /\ ephase = "done" => ParentNodes = PostOrder(input)
        /\ (ephase = "done" /\ Len(input) > CHUNK_SIZE) =>
              eparents[Len(eparents)].node =
                  <<hash_recurse(Take(input, left_len(Len(input))), NotRoot),
                    hash_recurse(Drop(input, left_len(Len(input))), NotRoot)>>
        /\ \A i \in 1..(Len(eparents) - 1) :
              eparents[i].after = eparents[i + 1].after
                  => PostOrderSizes(Len(input))[i] < PostOrderSizes(Len(input))[i + 1]

\* C20 witness: a finished run over five chunks with all four parents: one
\* from the drain after the second push, two from the drain after the fourth
\* and the root parent from merge_finish.
C20_Witness ==
    /\ run = "encoder" /\ ephase = "done" /\ elost = 0 /\ elate = 0
    /\ Len(input) = 4 * CHUNK_SIZE + 1
    /\ Len(eparents) = 4
    /\ eparents[1].after = 2 /\ eparents[2].after = 4 /\ eparents[3].after = 4
    /\ eparents[4].by = "merge_finish"
    /\ ParentNodes = PostOrder(input)

\* The caller that never calls merge_parent (drive_state): the pushes it makes
\* for the input, and its State after the first k of them.
NumPushes(inp) ==
    IF Len(inp) <= CHUNK_SIZE THEN 1 ELSE (Len(inp) + CHUNK_SIZE - 1) \div CHUNK_SIZE
RECURSIVE LazyState(_, _)
LazyState(inp, k) ==
    IF k = 0
    THEN State_new
    ELSE LET chunk == SubSeq(inp, (k - 1) * CHUNK_SIZE + 1, Min(k * CHUNK_SIZE, Len(inp)))
             fin == IF k = NumPushes(inp) THEN drive_finalization(inp) ELSE NotRoot
         IN  push_subtree(LazyState(inp, k - 1), hash_node(chunk, fin), Len(chunk))

\* The parent nodes of the merges the loop of push_subtree performs on s.
RECURSIVE MergedParents(_)
MergedParents(s) ==
    IF s.panicked \/ ~needs_merge(s)
    THEN <<>>
    ELSE <<merge_inner(s, NotRoot).parent>> \o MergedParents(merge_inner(s, NotRoot).state)

\* The merges the pushes 2..k+1 of that caller perform, in order.
RECURSIVE LazyParents(_, _)
LazyParents(inp, k) ==
    IF k = 0 THEN <<>>
    ELSE LazyParents(inp, k - 1) \o MergedParents(LazyState(inp, k))

\* C21: whatever calls of merge_parent a caller made between its pushes, its
\* State right after each push is the State of the caller that never calls
\* merge_parent, so the stack each hash was appended to is the same; its next
\* push will append to the same stack as well; the root merge_finish returns
\* is the same; and the parents merge_parent returned to a caller that left
\* no merge to push_subtree are the merges push_subtree performs for the
\* other one: all of them up to the last push, and no more than those of the
\* next push.
C21_LazyEqualsEager ==
    run = "encoder" =>
        /\ ecall.fn = "push_subtree" => estate = LazyState(input, Pushes)
        /\ ephase = "feeding"
              => MergeWhileNeeded(estate) = MergeWhileNeeded(LazyState(input, Pushes))
        /\ (ephase = "feeding" /\ ecall.fn = "merge_parent" /\ ecall.ret = "None")
              => estate = MergeWhileNeeded(LazyState(input, Pushes))
        /\ (ephase = "done" /\ elate = 0)
              => eroot = State_finish(LazyState(input, NumPushes(input))).value
        /\ (ephase = "feeding" /\ elost = 0 /\ Pushes >= 1)
              => /\ IsPrefix(LazyParents(input, Pushes - 1), ParentNodes)
                 /\ IsPrefix(ParentNodes, LazyParents(input, Pushes))
        /\ (ephase = "feeding" /\ elost = 0 /\ ecall.fn = "merge_parent"
              /\ ecall.ret = "None")
              => ParentNodes = LazyParents(input, Pushes)

\* C21 witness: the caller drained merge_parent after its fourth push and was
\* returned the three parents the fifth push of the other caller merges.
C21_Witness ==
    /\ run = "encoder" /\ ephase = "feeding" /\ elost = 0
    /\ Pushes = 4
    /\ ecall.fn = "merge_parent" /\ ecall.ret = "None"
    /\ Len(LazyState(input, 4).subtrees) = 3
    /\ Len(estate.subtrees) = 1
    /\ ParentNodes = LazyParents(input, 4)
    /\ Len(MergedParents(LazyState(input, 4))) = 2

\* The Parent results the loop of finish() is returned before Root, starting
\* from the State s.
RECURSIVE FinishParents(_)
FinishParents(s) ==
    LET r == merge_finish(s) IN
    IF r.kind = "Parent" THEN <<r.value>> \o FinishParents(r.state) ELSE <<>>

\* The parents merge_finish has returned so far.
FinishCount == Cardinality({i \in 1..Len(eparents) : eparents[i].by = "merge_finish"})

\* The subtrees the State held when merge_finish was first called: those the
\* final push left, less the ones merge_parent merged after it.
FinishFrom == Len(LazyState(input, NumPushes(input)).subtrees) - elate

\* C22: from a State of k >= 1 subtrees, merge_finish returns k - 1 Parent
\* results and then Root: each Parent result takes one subtree off the stack,
\* merged NotRoot while more than two were there and Root(total_len) when two
\* were; total_len never changes; and once Root was returned, a further call
\* returns the same root and leaves the State as it is.
C22_FinishTerminates ==
    (run = "encoder" /\ ~estate.panicked /\ ephase # "feeding") =>
        /\ Len(estate.subtrees) >= 1
        /\ Len(FinishParents(estate)) = Len(estate.subtrees) - 1
        /\ State_finish(estate).kind = "Root"
        /\ Len(State_finish(estate).state.subtrees) = 1
        /\ State_finish(estate).state.total_len = estate.total_len
        /\ estate.total_len = Len(input)
        /\ FinishCount + Len(estate.subtrees) = FinishFrom
        /\ (ecall.fn = "merge_finish" /\ ecall.ret = "Parent") =>
              LET node == eparents[Len(eparents)].node
                  fin == IF Len(estate.subtrees) = 1
                         THEN Root(estate.total_len) ELSE NotRoot
              IN  estate.subtrees[Len(estate.subtrees)] = parent_hash(node[1], node[2], fin)
        /\ ephase = "done" =>
              /\ FinishCount = FinishFrom - 1
              /\ estate.subtrees = <<eroot>>
              /\ merge_finish(estate) = [kind |-> "Root", state |-> estate, value |-> eroot]

\* C22 witness: the caller that never called merge_parent, after the final
\* push of eight chunks onto a stack of three: merge_finish returned three
\* parents and then Root.
C22_Witness ==
    /\ run = "encoder" /\ ephase = "done"
    /\ Len(input) = 7 * CHUNK_SIZE + 1
    /\ FinishFrom = 4 /\ elate = 0
    /\ FinishCount = 3 /\ Len(eparents) = 3
    /\ ecall = [fn |-> "merge_finish", ret |-> "Root"]
    /\ estate.subtrees = <<eroot>>

\* ------------------------------------------ the Writer's staging buffer
\* The bytes of B that Writer::update leaves staged: the last chunk of B,
\* whole when B ends on a chunk boundary.
StagedOf(B) ==
    IF B = <<>> THEN <<>> ELSE Drop(B, CHUNK_SIZE * ((Len(B) - 1) \div CHUNK_SIZE))

\* C23: whenever update has returned, the staging buffer holds fewer than
\* CHUNK_SIZE bytes.
C23_BufferBelowChunk ==
    (run = "writer" /\ wroot = None) => blake_count(writer.chunk) < CHUNK_SIZE

\* C23 as the code has it: a full staging buffer is finalized NotRoot and
\* pushed only when a further byte arrives. Whenever update has returned the
\* buffer holds the last chunk of what was fed, CHUNK_SIZE bytes of it when
\* that ends on a chunk boundary and never more, it is empty only when
\* nothing was fed, and the State has been pushed exactly the full chunks
\* before it, each finalized NotRoot.
C23_FlushOnNextByte ==
    (run = "writer" /\ wroot = None) =>
        /\ blake_count(writer.chunk) <= CHUNK_SIZE
        /\ writer.chunk = blake_update(new_blake2b_state, StagedOf(fed))
        /\ fed # <<>> => blake_count(writer.chunk) >= 1
        /\ State_count(writer.state) = Len(fed) - blake_count(writer.chunk)
        /\ State_count(writer.state) \div CHUNK_SIZE < NumPushes(fed)
        /\ writer.state = LazyState(fed, State_count(writer.state) \div CHUNK_SIZE)

\* C23 witness: two full chunks were fed; the first has been pushed and the
\* second fills the staging buffer.
C23_Witness ==
    /\ run = "writer" /\ wroot = None
    /\ Len(fed) = 2 * CHUNK_SIZE
    /\ blake_count(writer.chunk) = CHUNK_SIZE
    /\ Len(writer.state.subtrees) = 1
    /\ State_count(writer.state) = CHUNK_SIZE

\* C27: however the bytes were cut into update calls, empty slices and cuts
\* on chunk boundaries included, the Writer is the Writer a single update of
\* all of them leaves, and finish returns the hash it returns after that
\* single update.
C27_SplitIndependent ==
    run = "writer" =>
        /\ wroot = None => writer = Writer_update(Writer_new, fed)
        /\ wroot # None
              => /\ wroot = Writer_finish(Writer_update(Writer_new, fed)).hash
                 /\ writer = Writer_finish(Writer_update(Writer_new, fed)).writer

\* C27 witness: five chunks, fed in slices no longer than MaxSlice, one of
\* them empty and one cut on a chunk boundary, and finished.
C27_Witness ==
    /\ run = "writer" /\ wroot # None
    /\ Len(fed) = 4 * CHUNK_SIZE + 1 /\ MaxSlice < Len(fed)
    /\ wempty /\ wboundary
    /\ wroot = Writer_finish(Writer_update(Writer_new, fed)).hash

\* The State keeps no sizes; a hash of this model tells what it covers: the
\* chunks under the subtree hash d.
RECURSIVE ChunksUnder(_)
ChunksUnder(d) ==
    IF d[1] # <<>> /\ IsDigest(d[1][1])
    THEN ChunksUnder(d[1][1]) + ChunksUnder(d[1][2])
    ELSE 1
IsPow2(n) == n >= 1 /\ count_ones(n) = 1
\* Each entry covers a power of two of chunks, fewer than the one below it.
DecreasingPow2(subtrees) ==
    /\ \A i \in 1..Len(subtrees) : IsPow2(ChunksUnder(subtrees[i]))
    /\ \A i \in 1..(Len(subtrees) - 1) :
          ChunksUnder(subtrees[i]) > ChunksUnder(subtrees[i + 1])

\* Every merge that the loop of push_subtree, or merge_parent called until
\* None, performs from the State s pops two entries that are there and cover
\* the same power of two of chunks, off entries that cover decreasing powers
\* of two; and the stack it ends with does so as a whole.
RECURSIVE MergesWellFormed(_)
MergesWellFormed(s) ==
    LET n == Len(s.subtrees) IN
    IF ~needs_merge(s)
    THEN DecreasingPow2(s.subtrees)
    ELSE /\ n >= 2
         /\ IsPow2(ChunksUnder(s.subtrees[n]))
         /\ ChunksUnder(s.subtrees[n - 1]) = ChunksUnder(s.subtrees[n])
         /\ DecreasingPow2(SubSeq(s.subtrees, 1, n - 2))
         /\ ~merge_inner(s, NotRoot).state.panicked
         /\ MergesWellFormed(merge_inner(s, NotRoot).state)

\* C28: as long as the caller pushes full chunks and has not made its final
\* push, whatever calls of merge_parent it made, every merge the next
\* push_subtree or merge_parent performs is well-formed, no call has
\* panicked, and every parent merge_parent has returned joins two subtrees
\* of the same power of two of chunks.
C28_MergesWellFormed ==
    (run = "encoder" /\ (ephase = "feeding" \/ elate = 0)) =>
        /\ ephase = "feeding" =>
              /\ MergesWellFormed(estate)
              /\ ~estate.panicked
              /\ estate.total_len = Pushes * CHUNK_SIZE
        /\ (ephase = "final" /\ ecall.fn = "push_subtree") => ~estate.panicked
        /\ \A i \in 1..Len(eparents) :
              eparents[i].by = "merge_parent" =>
                  /\ IsPow2(ChunksUnder(eparents[i].node[1]))
                  /\ ChunksUnder(eparents[i].node[1]) = ChunksUnder(eparents[i].node[2])

\* C28 witness: after the fourth push onto subtrees of two chunks and one,
\* merge_parent has merged the two single chunks, and the next merge is due:
\* two subtrees of two chunks each, off an empty stack.
C28_Witness ==
    /\ run = "encoder" /\ ephase = "feeding"
    /\ Pushes = 4
    /\ ecall = [fn |-> "merge_parent", ret |-> "Some"]
    /\ Len(estate.subtrees) = 2
    /\ ChunksUnder(estate.subtrees[1]) = 2 /\ ChunksUnder(estate.subtrees[2]) = 2
    /\ needs_merge(estate)
    /\ ChunksUnder(eparents[Len(eparents)].node[1]) = 1

MaxGeomLen == Pow2(GeomBits) - 1

\* Every length there is. hash_recurse calls left_len, and encode, decode and
\* read call their functions, on lengths of more than one chunk only.
InitGeom ==
    /\ run = "geometry"
    /\ input = <<>>
    /\ gn \in 0..MaxGeomLen
    /\ gcalled = FALSE
    /\ gleft = 0
    /\ gwide = 0
    /\ gplain = 0
    /\ gsub = <<0, 0>> /\ gpow = 0
    /\ IdleWriter /\ IdleDrive /\ IdleHash /\ IdleRayon /\ IdleCodec /\ IdleFin /\ IdleReader
    /\ IdleEnc /\ IdleCli

\* left_len(gn)
GeomLeftLen ==
    /\ run = "geometry"
    /\ gn > CHUNK_SIZE
    /\ ~gcalled
    /\ gcalled' = TRUE
    /\ gleft' = left_len(gn)
    /\ gwide' = left_len_widest(gn)
    /\ UNCHANGED <<gn, gplain, gsub, gpow, notGeom>>

\* How a call that does not return a length ends: `size * 2` exceeds the
\* width of a length, which panics where overflow is checked (debug builds)
\* and wraps to 0 where it is not, and from then on `0 < input_len` holds
\* for ever.
Overflowed == -1
NeverReturns == -2
left_plaintext_len_outcomes(input_len) ==
    IF left_plaintext_len_widest(input_len) <= MaxGeomLen
    THEN {left_plaintext_len(input_len)}
    ELSE {Overflowed, NeverReturns}

\* left_plaintext_len(gn), as RahReader::read calls it on the plaintext_len
\* its caller gave it.
GeomLeftPlaintextLen ==
    \E outcome \in left_plaintext_len_outcomes(gn) :
        /\ run = "geometry"
        /\ gn > CHUNK_SIZE
        /\ gplain = 0
        /\ gplain' = outcome
        /\ UNCHANGED <<gn, gcalled, gleft, gwide, gsub, gpow, notGeom>>

\* The longest slice or Vec there is: isize::MAX bytes.
IsizeMax == Pow2(GeomBits - 1) - 1

\* left_subtree_len_and_chunk_count(encoded.len()) for the encoding of gn
\* bytes, as decode and decode_chunk call it; the encoding is a Vec.
GeomEncodedSplit ==
    \E enc \in {encode(Zeros(gn)).encoded} :
        /\ run = "geometry"
        /\ gn > CHUNK_SIZE
        /\ gsub = <<0, 0>>
        /\ Len(enc) <= IsizeMax
        /\ gsub' = left_subtree_len_and_chunk_count(Len(enc))
        /\ UNCHANGED <<gn, gcalled, gleft, gwide, gplain, gpow, notGeom>>

\* largest_power_of_two_leq(gn), for any u64.
GeomPowerOfTwo ==
    /\ run = "geometry"
    /\ gpow = 0
    /\ gpow' = largest_power_of_two_leq(gn)
    /\ UNCHANGED <<gn, gcalled, gleft, gwide, gplain, gsub, notGeom>>

NextGeom == GeomLeftLen \/ GeomLeftPlaintextLen \/ GeomEncodedSplit \/ GeomPowerOfTwo

SpecGeom == InitGeom /\ [][NextGeom]_vars

\* C16: for a content length of more than one chunk, left_len is CHUNK_SIZE
\* times a power of two, it leaves at least one byte to the right side, no
\* larger such split exists, and no value of the computation exceeds the
\* width of a length.
C16_SplitGeometry ==
    (run = "geometry" /\ gcalled) =>
        /\ \E j \in 0..GeomBits : gleft = CHUNK_SIZE * Pow2(j)
        /\ gleft < gn
        /\ gn <= 2 * gleft
        /\ gwide <= MaxGeomLen

\* C16 witness: the longest length there is, split at half the range.
C16_Witness ==
    /\ run = "geometry" /\ gcalled
    /\ gn = MaxGeomLen
    /\ gleft = Pow2(GeomBits - 1)

\* C26: largest_power_of_two_leq(n) is, for n >= 1, the power of two p with
\* p <= n < 2p, and 1 for n = 0; no value it holds exceeds the width of a
\* length, up to the largest n there is, for which it returns half the range.
C26_LargestPowerOfTwo ==
    (run = "geometry" /\ gpow # 0) =>
        /\ gn = 0 => gpow = 1
        /\ gn >= 1 => /\ \E j \in 0..(GeomBits - 1) : gpow = Pow2(j)
                      /\ gpow <= gn
                      /\ gn < 2 * gpow
        /\ largest_power_of_two_leq_widest(gn) <= MaxGeomLen
        /\ gn = MaxGeomLen => gpow = Pow2(GeomBits - 1)

\* C26 witness: the largest length there is.
C26_Witness ==
    /\ run = "geometry"
    /\ gn = MaxGeomLen
    /\ gpow = Pow2(GeomBits - 1)
    /\ largest_power_of_two_leq_widest(gn) = gn

\* C24: for an input of more than one chunk, left_subtree_len_and_chunk_count
\* of the length of its encoding is the length of the encoding of its left
\* subtree, the first left_plaintext_len bytes, and the number of chunks of
\* that subtree; the encoding splits there into the parent node, the
\* encoding of the left subtree and the encoding of the right one; and no
\* value of the computation exceeds the width of a length.
C24_DecoderSplitIsEncoderSplit ==
    (run = "geometry" /\ gsub # <<0, 0>>) =>
        LET l == left_plaintext_len(gn)
            enc == encode(Zeros(gn)).encoded
            left == encode(Zeros(l)).encoded
            right == encode(Zeros(gn - l)).encoded
        IN  /\ gsub = <<Len(left), NumChunks(l)>>
            /\ NumChunks(l) * CHUNK_SIZE = l
            /\ SubSeq(enc, 2 * DIGEST_SIZE + 1, 2 * DIGEST_SIZE + gsub[1]) = left
            /\ Drop(enc, 2 * DIGEST_SIZE + gsub[1]) = right
            /\ left_subtree_widest(Len(enc)) <= MaxGeomLen

\* C24 witness: five chunks, the last one short: the left subtree is the
\* four chunks and three parent nodes after the root's.
C24_Witness ==
    /\ run = "geometry"
    /\ gn = 4 * CHUNK_SIZE + 1
    /\ gsub = <<4 * CHUNK_SIZE + 6 * DIGEST_SIZE, 4>>

\* C30: where left_plaintext_len(N) of lib.rs returns, that is where its
\* `size * 2` fits the width of a length, it returns what left_len(N) of
\* hash.rs returns; and it does return there.
C30_SameSplit ==
    (run = "geometry" /\ gplain # 0) =>
        /\ (left_plaintext_len_widest(gn) <= MaxGeomLen /\ left_len_widest(gn) <= MaxGeomLen)
              => gplain = left_len(gn)
        /\ (gplain > 0 /\ gcalled) => gplain = gleft
        /\ gplain > 0 <=> gn <= Pow2(GeomBits - 1)

\* C30 witness: the longest length left_plaintext_len returns for, on which
\* both functions were called.
C30_Witness ==
    /\ run = "geometry" /\ gcalled
    /\ gn = Pow2(GeomBits - 1)
    /\ gplain = Pow2(GeomBits - 2)
    /\ gleft = gplain

\* ------------------------------------------------- bao_bin: the commands
\* What a path names: a regular file or not (a pipe, a terminal), and for a
\* regular file whether it can be memory-mapped (an input no longer than
\* isize::MAX; an output that is empty and whose target length is no more
\* than isize::MAX).
Files == {f \in [is_file : BOOLEAN, mappable : BOOLEAN] : f.mappable => f.is_file}

\* A confirm_real_file that lets every stream pass.
confirm_real_file_trusting(file) == "ok"
\* confirm_real_file: Err unless the metadata say regular file.
confirm_real_file(file) == IF ~file.is_file THEN "err" ELSE "ok"

\* maybe_memmap_input, maybe_memmap_output: Some(map) or None.
maybe_memmap_input(file) == file.is_file /\ file.mappable
maybe_memmap_output(file) == file.is_file /\ file.mappable

\* A call the command makes on one of its streams.
Op(name, on) == [op |-> name, on |-> on]

\* bao encode / bao decode / bao slice with their flags, and what the paths
\* name. encode has one output, <output> or --outboard=<file>.
InitCli ==
    /\ run = "cli"
    /\ input = <<>>
    /\ cliArgs \in [cmd : {"encode", "decode", "slice"}, outboard : BOOLEAN,
                    start : BOOLEAN, hash_ok : BOOLEAN]
    /\ cliArgs.cmd # "decode" => (~cliArgs.start /\ cliArgs.hash_ok)
    /\ cliFiles \in [input : Files, output : Files, outboard : Files]
    /\ (cliArgs.cmd = "encode" \/ ~cliArgs.outboard) => cliFiles.outboard = NoFile
    /\ ~cliFiles.outboard.mappable
    /\ cliPc = "open"
    /\ cliOps = <<>>
    /\ cliExit = "running"
    /\ IdleWriter /\ IdleDrive /\ IdleHash /\ IdleRayon /\ IdleCodec /\ IdleFin /\ IdleReader
    /\ IdleEnc /\ IdleGeom

\* The command returns: Ok(()) or Err(e) out of main.
CliReturn(code, ops) ==
    /\ cliExit' = code
    /\ cliPc' = "exit"
    /\ cliOps' = cliOps \o ops
    /\ UNCHANGED <<cliArgs, cliFiles, notCli>>

\* The command goes on to the line pc.
CliGoto(pc, ops) ==
    /\ cliPc' = pc
    /\ cliOps' = cliOps \o ops
    /\ UNCHANGED <<cliArgs, cliFiles, cliExit, notCli>>

\* open_input, open_output and (decode) parse_hash at the head of encode,
\* decode and slice; each can fail.
CliOpen ==
    \E ok \in BOOLEAN :
        /\ run = "cli"
        /\ cliPc = "open"
        /\ IF ~ok
           THEN CliReturn("err", <<>>)
           ELSE IF ~cliArgs.hash_ok
           THEN CliReturn("err", <<Op("open_input", "input"), Op("open_output", "output")>>)
           ELSE CliGoto(IF cliArgs.cmd = "encode" THEN "encode:107"
                        ELSE IF cliArgs.cmd = "decode" THEN "decode:142"
                        ELSE "slice:176",
                        <<Op("open_input", "input"), Op("open_output", "output")>>)

\* encode, lines 107-121: encode through two memory maps when both files
\* can be mapped.
EncodeMmap ==
    /\ run = "cli"
    /\ cliPc = "encode:107"
    /\ IF maybe_memmap_input(cliFiles.input)
       THEN IF maybe_memmap_output(cliFiles.output)
            THEN CliReturn("ok", <<Op("mmap", "input"), Op("set_len", "output"),
                                   Op("mmap", "output"), Op("encode", "output")>>)
            ELSE CliGoto("encode:124", <<Op("mmap", "input")>>)
       ELSE CliGoto("encode:124", <<>>)

\* encode, line 124
EncodeConfirm ==
    /\ run = "cli"
    /\ cliPc = "encode:124"
    /\ IF confirm_real_file(cliFiles.output) = "err"
       THEN CliReturn("err", <<Op("confirm_real_file", "output")>>)
       ELSE CliGoto("encode:125", <<Op("confirm_real_file", "output")>>)

\* encode, lines 125-133: Writer or OutboardWriter over the output, io::copy
\* and finish, which can fail.
EncodeWriter ==
    \E ok \in BOOLEAN :
        /\ run = "cli"
        /\ cliPc = "encode:125"
        /\ CliReturn(IF ok THEN "ok" ELSE "err",
                     <<Op("Writer::new", "output"), Op("io::copy", "output")>>)

\* decode, lines 142-150: decode through two memory maps when nothing asks
\* for the reader; parse_and_check_content_len and decode can fail.
DecodeMmap ==
    \E ok \in BOOLEAN :
        /\ run = "cli"
        /\ cliPc = "decode:142"
        /\ IF ~cliArgs.start /\ ~cliArgs.outboard /\ maybe_memmap_input(cliFiles.input)
           THEN IF ~ok
                THEN CliReturn("err", <<Op("mmap", "input")>>)
                ELSE IF maybe_memmap_output(cliFiles.output)
                THEN CliReturn("ok", <<Op("mmap", "input"), Op("set_len", "output"),
                                       Op("mmap", "output"), Op("decode", "input")>>)
                ELSE CliGoto("decode:153", <<Op("mmap", "input")>>)
           ELSE ok /\ CliGoto("decode:153", <<>>)

\* decode, lines 153-155 and 163: the reader is built; opening the outboard
\* file can fail.
DecodeReader ==
    \E ok \in BOOLEAN :
        /\ run = "cli"
        /\ cliPc = "decode:153"
        /\ IF cliArgs.outboard
           THEN IF ~ok
                THEN CliReturn("err", <<>>)
                ELSE CliGoto("decode:156", <<Op("open_input", "outboard"),
                                             Op("Reader::new", "input"),
                                             Op("Reader::new", "outboard")>>)
           ELSE ok /\ CliGoto("decode:156", <<Op("Reader::new", "input")>>)

\* decode, lines 156-160 and 164-167: with --start, confirm_real_file of what
\* the reader reads and then reader.seek, which can fail.
DecodeSeek ==
    \E ok \in BOOLEAN :
        /\ run = "cli"
        /\ cliPc = "decode:156"
        /\ IF ~cliArgs.start
           THEN ok /\ CliGoto("decode:161", <<>>)
           ELSE IF confirm_real_file(cliFiles.input) = "err"
           THEN ok /\ CliReturn("err", <<Op("confirm_real_file", "input")>>)
           ELSE IF cliArgs.outboard /\ confirm_real_file(cliFiles.outboard) = "err"
           THEN ok /\ CliReturn("err", <<Op("confirm_real_file", "input"),
                                         Op("confirm_real_file", "outboard")>>)
           ELSE LET seeks == IF cliArgs.outboard
                             THEN <<Op("confirm_real_file", "input"),
                                    Op("confirm_real_file", "outboard"),
                                    Op("seek", "input"), Op("seek", "outboard")>>
                             ELSE <<Op("confirm_real_file", "input"),
                                    Op("seek", "input")>>
                IN  IF ok THEN CliGoto("decode:161", seeks)
                    ELSE CliReturn("err", seeks)

\* decode, lines 161 and 168: io::copy out of the reader; a broken pipe is
\* Ok, any other error is Err.
DecodeCopy ==
    \E ok \in BOOLEAN :
        /\ run = "cli"
        /\ cliPc = "decode:161"
        /\ CliReturn(IF ok THEN "ok" ELSE "err", <<Op("io::copy", "input")>>)

\* slice, lines 176-180 and 190: the outboard file is opened, which can
\* fail, then confirm_real_file of what the extractor reads.
SliceConfirm ==
    \E ok \in BOOLEAN :
        /\ run = "cli"
        /\ cliPc = "slice:176"
        /\ IF cliArgs.outboard /\ ~ok
           THEN CliReturn("err", <<>>)
           ELSE IF confirm_real_file(cliFiles.input) = "err"
           THEN ok /\ CliReturn("err", <<Op("confirm_real_file", "input")>>)
           ELSE IF cliArgs.outboard /\ confirm_real_file(cliFiles.outboard) = "err"
           THEN ok /\ CliReturn("err", <<Op("confirm_real_file", "input"),
                                         Op("confirm_real_file", "outboard")>>)
           ELSE ok /\ CliGoto("slice:181", <<Op("confirm_real_file", "input")>>)

\* slice, lines 181-187 and 191-192: the extractor over the input (and the
\* outboard file) and io::copy out of it, which can fail.
SliceExtract ==
    \E ok \in BOOLEAN :
        /\ run = "cli"
        /\ cliPc = "slice:181"
        /\ CliReturn(IF ok THEN "ok" ELSE "err",
                     IF cliArgs.outboard
                     THEN <<Op("SliceExtractor::new", "input"),
                            Op("SliceExtractor::new", "outboard"),
                            Op("io::copy", "input")>>
                     ELSE <<Op("SliceExtractor::new", "input"),
                            Op("io::copy", "input")>>)

NextCli == CliOpen \/ EncodeMmap \/ EncodeConfirm \/ EncodeWriter \/ DecodeMmap
           \/ DecodeReader \/ DecodeSeek \/ DecodeCopy \/ SliceConfirm \/ SliceExtract

SpecCli == InitCli /\ [][NextCli]_vars

\* The streams the command has to seek on that are no regular files.
Unseekable ==
    IF cliArgs.cmd = "encode"
    THEN {st \in {"output"} : ~cliFiles[st].is_file}
    ELSE IF cliArgs.cmd = "decode" /\ ~cliArgs.start
    THEN {}
    ELSE {st \in {"input"} \cup (IF cliArgs.outboard THEN {"outboard"} ELSE {}) :
              ~cliFiles[st].is_file}

\* The calls that need seek: the encoder's writer, the reader's seek and the
\* slice extractor.
SeekingOps == {"Writer::new", "seek", "SliceExtractor::new"}

\* C17: when a stream the command has to seek on is no regular file, the
\* command never ends Ok, and up to its error it has run no writer, no seek
\* and no slice extractor, on that stream or on any other.
C17_UnseekableRejected ==
    (run = "cli" /\ Unseekable # {}) =>
        /\ cliExit \in {"running", "err"}
        /\ \A i \in 1..Len(cliOps) : cliOps[i].op \notin SeekingOps

\* C17 witness: decode --start --outboard with a regular input and a pipe as
\* the outboard file has built its reader and ended in the error of
\* confirm_real_file.
C17_Witness ==
    /\ run = "cli"
    /\ cliArgs.cmd = "decode" /\ cliArgs.start /\ cliArgs.outboard
    /\ cliFiles.input.is_file /\ ~cliFiles.outboard.is_file
    /\ cliExit = "err"
    /\ Len(cliOps) > 0
    /\ cliOps[Len(cliOps)] = Op("confirm_real_file", "outboard")

====
